---- MODULE Spec2Model ----
(***************************************************************************)
(* Model of jni/lib/wprintJNI.c of the built-in print service: the page    *)
(* range parser and resolver (_order_pdf_pages, _get_pdf_page_range), the  *)
(* per-document page transmitter loop (_print_pdf_pages) and the job       *)
(* submission of nativeStartJob.                                           *)
(*                                                                         *)
(* C strings are sequences of one-character strings.  JNI string access is *)
(* taken to succeed (GetStringUTFChars never returns NULL).                *)
(***************************************************************************)
EXTENDS Integers, Sequences, FiniteSets, TLC

\* ------------------------------------------------------------------ bounds
MaxLen == 5        \* longest page-range expression drawn in SpecRange
MaxPages == 2      \* largest page count a document reports
MaxDocs == 2       \* largest number of files in a job
MaxScalings == 2   \* longest list of supported scalings drawn in SpecScaling
MaxSetBits == 2    \* most bits set in a reason mask
MaxRefs == 3       \* most global references made of receivers

\* --------------------------------------------------------------- constants
MAX_TOKEN == 5     \* char num_begin_ary[5], num_end_ary[5]

\* #define MAX_NUM_PAGES 2000, the length of a row of
\* int pages_ary[len][MAX_NUM_PAGES].  The row is scaled with the documents:
\* the longest document drawn has one page more than a row holds, as a PDF of
\* 2001 pages has.  No action reads it, as no line of the code compares a
\* count or an index with it.
MAX_NUM_PAGES == MaxPages - 1

OK == "OK"
ERROR == "ERROR"
NUL == ""

Alphabet == {"0", "1", "2", "-", ",", " ", "z"}
DigitChars == {"0", "1", "2", "3", "4", "5", "6", "7", "8", "9"}
WhiteSpace == {" ", "\t", "\n", "\r"}

Strings(n) == UNION {[1..k -> Alphabet] : k \in 0..n}

\* ------------------------------------------------------------ libc helpers
isspace(c) == c \in WhiteSpace

DigitVal(c) ==
    CASE c = "0" -> 0 [] c = "1" -> 1 [] c = "2" -> 2 [] c = "3" -> 3
      [] c = "4" -> 4 [] c = "5" -> 5 [] c = "6" -> 6 [] c = "7" -> 7
      [] c = "8" -> 8 [] c = "9" -> 9

DigitChar(d) ==
    CASE d = 0 -> "0" [] d = 1 -> "1" [] d = 2 -> "2" [] d = 3 -> "3"
      [] d = 4 -> "4" [] d = 5 -> "5" [] d = 6 -> "6" [] d = 7 -> "7"
      [] d = 8 -> "8" [] d = 9 -> "9"

\* number of leading decimal digits of s
RECURSIVE DigitPrefix(_)
DigitPrefix(s) ==
    IF s # << >> /\ Head(s) \in DigitChars THEN 1 + DigitPrefix(Tail(s)) ELSE 0

\* strtod(s, &p): how many characters of s the conversion consumes.  Over the
\* characters a token can hold here (no sign, point or exponent) the subject
\* sequence is the leading run of digits.
strtod_end(s) == DigitPrefix(s)

\* atoi(s): value of the leading run of digits, 0 when there is none
RECURSIVE AtoiAcc(_, _)
AtoiAcc(s, acc) ==
    IF s # << >> /\ Head(s) \in DigitChars
    THEN AtoiAcc(Tail(s), 10 * acc + DigitVal(Head(s)))
    ELSE acc

atoi(s) == AtoiAcc(s, 0)

\* the "%d" conversion of snprintf for n >= 0
RECURSIVE Dec(_)
Dec(n) == IF n < 10 THEN <<DigitChar(n)>> ELSE Dec(n \div 10) \o <<DigitChar(n % 10)>>

\* snprintf(buf, MAX_NUM_PAGES, "1-%d", num_pages)
FullRange(num_pages) == <<"1", "-">> \o Dec(num_pages)

\* strtok(s, ","): skip leading delimiters, cut the token at the next one
RECURSIVE SkipDelims(_)
SkipDelims(s) == IF s # << >> /\ Head(s) = "," THEN SkipDelims(Tail(s)) ELSE s

RECURSIVE TokenLen(_)
TokenLen(s) == IF s # << >> /\ Head(s) # "," THEN 1 + TokenLen(Tail(s)) ELSE 0

NoToken == [null |-> TRUE, chars |-> << >>]

\* a tokenizer that also cuts at blanks (delimiters ", " instead of ",")
RECURSIVE SkipDelimsBlank(_)
SkipDelimsBlank(s) ==
    IF s # << >> /\ Head(s) \in {",", " "} THEN SkipDelimsBlank(Tail(s)) ELSE s

RECURSIVE TokenLenBlank(_)
TokenLenBlank(s) ==
    IF s # << >> /\ Head(s) \notin {",", " "} THEN 1 + TokenLenBlank(Tail(s)) ELSE 0

strtok_blank(s) ==
    LET t == SkipDelimsBlank(s)
        k == TokenLenBlank(t)
    IN  IF t = << >>
        THEN [tok |-> NoToken, rest |-> << >>]
        ELSE [tok |-> [null |-> FALSE, chars |-> SubSeq(t, 1, k)],
              rest |-> SubSeq(t, k + 2, Len(t))]

strtok(s) ==
    LET t == SkipDelims(s)
        k == TokenLen(t)
    IN  IF t = << >>
        THEN [tok |-> NoToken, rest |-> << >>]
        ELSE [tok |-> [null |-> FALSE, chars |-> SubSeq(t, 1, k)],
              rest |-> SubSeq(t, k + 2, Len(t))]

\* ------------------------------------------------- _order_pdf_pages: scan
\* Scanner state: the two token buffers (MAX_TOKEN cells each, zeroed),
\* num_counter, dash_encountered; oob records a store past a buffer's last
\* cell and maxcell the highest cell index (0-based) a store was aimed at.
ScanInit ==
    [num_begin_ary |-> [i \in 1..MAX_TOKEN |-> NUL],
     num_end_ary |-> [i \in 1..MAX_TOKEN |-> NUL],
     num_counter |-> 0,
     dash_encountered |-> FALSE,
     oob |-> FALSE,
     maxcell |-> -1]

Max(a, b) == IF a >= b THEN a ELSE b

\* buf[num_counter++] = c
StoreBegin(st, c) ==
    [st EXCEPT !.num_begin_ary = IF st.num_counter < MAX_TOKEN
                                 THEN [@ EXCEPT ![st.num_counter + 1] = c] ELSE @,
               !.oob = @ \/ st.num_counter >= MAX_TOKEN,
               !.maxcell = Max(@, st.num_counter),
               !.num_counter = @ + 1]

StoreEnd(st, c) ==
    [st EXCEPT !.num_end_ary = IF st.num_counter < MAX_TOKEN
                               THEN [@ EXCEPT ![st.num_counter + 1] = c] ELSE @,
               !.oob = @ \/ st.num_counter >= MAX_TOKEN,
               !.maxcell = Max(@, st.num_counter),
               !.num_counter = @ + 1]

\* one iteration of the for loop over page_range_split
ScanChar(st, c) ==
    IF isspace(c) THEN st
    ELSE IF c = "-" THEN [st EXCEPT !.dash_encountered = TRUE, !.num_counter = 0]
    ELSE IF ~st.dash_encountered THEN StoreBegin(st, c)
    ELSE StoreEnd(st, c)

RECURSIVE ScanFrom(_, _, _)
ScanFrom(st, s, i) ==
    IF i > Len(s) THEN st ELSE ScanFrom(ScanChar(st, s[i]), s, i + 1)

\* if (!dash_encountered) num_end_ary[0] = '0'
Scan(s) ==
    LET st == ScanFrom(ScanInit, s, 1)
    IN  IF ~st.dash_encountered
        THEN [st EXCEPT !.num_end_ary = [@ EXCEPT ![1] = "0"]]
        ELSE st

\* the C string held in a buffer: the cells before the first NUL
RECURSIVE CStrLen(_, _)
CStrLen(ary, i) ==
    IF i <= Len(ary) /\ ary[i] # NUL THEN 1 + CStrLen(ary, i + 1) ELSE 0

CStr(ary) == SubSeq(ary, 1, CStrLen(ary, 1))

\* no NUL in the buffer: reading it as a string runs past its end
Unterminated(ary) == CStrLen(ary, 1) = Len(ary)

\* the scan left the function in undefined behaviour: a store past a buffer,
\* or a buffer without terminator that _isNumeric/atoi/LOGE then read
ScanUB(st) ==
    st.oob \/ Unterminated(st.num_begin_ary) \/ Unterminated(st.num_end_ary)

isNumeric(s) ==
    IF s = << >> \/ isspace(Head(s)) THEN FALSE ELSE strtod_end(s) = Len(s)

\* ------------------------------------------- _order_pdf_pages: page stores
\* *(pages_ary + count) = v, on the written prefix of the row
WritePage(pages, count, v) ==
    IF count < Len(pages) THEN [pages EXCEPT ![count + 1] = v]
    ELSE pages \o [i \in 1..(count - Len(pages)) |-> 0] \o <<v>>

\* an ascending loop that runs one page too far ("+ 1" in the bound)
RECURSIVE AscLoopLong(_, _, _, _, _)
AscLoopLong(pages, num_index, count, num_begin, num_end) ==
    IF count <= num_index + num_end - num_begin + 1
    THEN AscLoopLong(WritePage(pages, count, num_begin), num_index + 1, count + 1,
                     num_begin + 1, num_end)
    ELSE [pages_ary |-> pages, num_index |-> num_index]

\* an ascending loop that stores ++num_begin for num_begin++
RECURSIVE AscLoopPreIncrement(_, _, _, _, _)
AscLoopPreIncrement(pages, num_index, count, num_begin, num_end) ==
    IF count <= num_index + num_end - num_begin
    THEN AscLoopPreIncrement(WritePage(pages, count, num_begin + 1), num_index + 1,
                             count + 1, num_begin + 1, num_end)
    ELSE [pages_ary |-> pages, num_index |-> num_index]

\* for (count = *num_index; count <= *num_index + num_end - num_begin; count++)
\*     { pages_ary[count] = num_begin++; *num_index += 1; }
RECURSIVE AscLoop(_, _, _, _, _)
AscLoop(pages, num_index, count, num_begin, num_end) ==
    IF count <= num_index + num_end - num_begin
    THEN AscLoop(WritePage(pages, count, num_begin), num_index + 1, count + 1,
                 num_begin + 1, num_end)
    ELSE [pages_ary |-> pages, num_index |-> num_index]

\* a descending loop that stops one page early ("<" for "<=")
RECURSIVE DescLoopShort(_, _, _, _, _)
DescLoopShort(pages, num_index, count, num_begin, num_end) ==
    IF count < num_index + num_begin - num_end
    THEN DescLoopShort(WritePage(pages, count, num_begin), num_index + 1, count + 1,
                       num_begin - 1, num_end)
    ELSE [pages_ary |-> pages, num_index |-> num_index]

\* for (count = *num_index; count <= *num_index + num_begin - num_end; count++)
\*     { pages_ary[count] = num_begin--; *num_index += 1; }
RECURSIVE DescLoop(_, _, _, _, _)
DescLoop(pages, num_index, count, num_begin, num_end) ==
    IF count <= num_index + num_begin - num_end
    THEN DescLoop(WritePage(pages, count, num_begin), num_index + 1, count + 1,
                  num_begin - 1, num_end)
    ELSE [pages_ary |-> pages, num_index |-> num_index]

Min(a, b) == IF a <= b THEN a ELSE b

\* a lower-bound test that lets 0 through (">= 0" for "> 0")
AtLeastOneLax(num_begin, num_end) == num_begin >= 0 /\ num_end >= 0

\* if (num_begin > 0 && num_end > 0)
AtLeastOne(num_begin, num_end) == num_begin > 0 /\ num_end > 0

\* if (num_begin <= num_pages && num_end <= num_pages)
WithinDocument(num_begin, num_end, num_pages) ==
    num_begin <= num_pages /\ num_end <= num_pages

\* the range is stored as written, without a look at the page count
ConvertAnyRange(num_pages, pages, num_index, st) ==
    LET b == CStr(st.num_begin_ary)
        e == CStr(st.num_end_ary)
        unchanged == [succeeded |-> FALSE, pages_ary |-> pages, num_index |-> num_index]
    IN  IF isNumeric(b) /\ isNumeric(e)
        THEN LET num_begin == atoi(b)
                 end0 == atoi(e)
                 num_end == IF end0 = 0 THEN num_begin ELSE end0
             IN  IF AtLeastOne(num_begin, num_end)
                 THEN LET r == IF num_end >= num_begin
                               THEN AscLoop(pages, num_index, num_index, num_begin,
                                            num_end)
                               ELSE DescLoop(pages, num_index, num_index,
                                             num_begin, num_end)
                      IN  [succeeded |-> TRUE, pages_ary |-> r.pages_ary,
                           num_index |-> r.num_index]
                 ELSE unchanged
        ELSE unchanged

\* The part of _order_pdf_pages after the scan, on terminated tokens: the
\* numeric test, the conversions, the range tests and the stores.
Convert(num_pages, pages, num_index, st) ==
    LET b == CStr(st.num_begin_ary)
        e == CStr(st.num_end_ary)
        unchanged == [succeeded |-> FALSE, pages_ary |-> pages, num_index |-> num_index]
    IN  IF isNumeric(b) /\ isNumeric(e)
        THEN LET num_begin == atoi(b)
                 end0 == atoi(e)
                 num_end == IF end0 = 0 THEN num_begin ELSE end0
             IN  IF AtLeastOne(num_begin, num_end)
                 THEN IF WithinDocument(num_begin, num_end, num_pages)
                      THEN LET r == IF num_end >= num_begin
                                    THEN AscLoop(pages, num_index, num_index, num_begin,
                                                 Min(num_end, num_pages))
                                    ELSE DescLoop(pages, num_index, num_index,
                                                  Min(num_begin, num_pages), num_end)
                           IN  [succeeded |-> TRUE, pages_ary |-> r.pages_ary,
                                num_index |-> r.num_index]
                      ELSE unchanged
                 ELSE unchanged
        ELSE unchanged

\* One call of _order_pdf_pages(num_pages, pages_ary, num_index, page_range_split):
\* the set of results the call can have.  When the scan stays inside the token
\* buffers the result is the one Convert computes.  When it does not, the
\* behaviour is undefined: the process may abort, or the function may go on
\* with whatever the overrun left in its tokens, which it then either rejects
\* or accepts as some range inside the document.
order_pdf_pages(num_pages, pages, num_index, page_range_split) ==
    LET st == Scan(page_range_split)
        info == [seg |-> page_range_split, before |-> num_index, scan |-> st,
                 ub |-> ScanUB(st)]
        result(crashed, r) ==
            [crashed |-> crashed, succeeded |-> r.succeeded, pages_ary |-> r.pages_ary,
             num_index |-> r.num_index, info |-> info]
        none == [succeeded |-> FALSE, pages_ary |-> pages, num_index |-> num_index]
    IN  IF ~ScanUB(st)
        THEN {result(FALSE, Convert(num_pages, pages, num_index, st))}
        ELSE {result(TRUE, none), result(FALSE, none)}
             \cup {result(FALSE,
                     LET r == IF e >= b
                              THEN AscLoop(pages, num_index, num_index, b, e)
                              ELSE DescLoop(pages, num_index, num_index, b, e)
                     IN  [succeeded |-> TRUE, pages_ary |-> r.pages_ary,
                          num_index |-> r.num_index]) :
                   b \in 1..num_pages, e \in 1..num_pages}

\* ------------------------------------------------------------------ state
VARIABLES
    pc,               \* position in nativeStartJob / its callees
    len,              \* number of files of the job
    mime_pdf,         \* _is_pdf_doc(mimeTypeStr, ...): the job's mime type is PDF
    faceDownTray,     \* caps.faceDownTray
    pageRangeObject,  \* jobParams.page_range: null, or a string
    pdf_pages_ary,    \* per file: page count of the document
    page_range_arr,   \* per file: num_index, the resolved page count
    pages_ary,        \* per file: the written prefix of its row of pages
    pageIndex,        \* loop variable of nativeStartJob
    index,            \* file being submitted
    incrementor,      \* +1 or -1
    result,           \* nativeStartJob's result
    job_handle,       \* nativeStartJob's return value
    page_range_str,   \* _get_pdf_page_range: the display string
    strtok_rest,      \* what strtok(NULL, ",") continues with
    page_range_split, \* current token
    fell_back,        \* a parser call returned false and the fallback ran
    call,             \* the latest call of _order_pdf_pages
    page_index,       \* _print_pdf_pages: loop variable
    print_result,     \* _print_pdf_pages: result
    sent,             \* calls made to the transmitter and the job controller
    submitted,        \* files handed to the transmitter loop, in order
    jobParams,        \* the Java job parameters: duplex, document_category,
                      \* shared_photo, preserve_scaling
    caps,             \* printer capabilities: print_scalings_supported,
                      \* print_scaling_default
    print_format,     \* what _get_print_format answered
    params,           \* wprint_job_params_t: duplex, docCategory, print_scaling
    decoder,          \* a call of processFailReasons or processBlockStatus
    job_state,        \* the job's state at the transport
    cb_param,         \* the notification handed to _wprint_callback_fn
    callback,         \* what the latest run of _wprint_callback_fn did
    reported,         \* the listener: state of the latest event it was given
    reported_before,  \* the listener: state of the event before that one
    callbackReceiver, \* _callbackReceiver: 0, or a global reference
    global_refs,      \* the global references NewGlobalRef made of receivers,
                      \* in the order made: each "live" or "deleted"
    library           \* wprint: "down", "up" after wprintInit, or "aborted"
                      \* once the VM has aborted the process

vars == <<pc, len, mime_pdf, faceDownTray, pageRangeObject, pdf_pages_ary,
          page_range_arr, pages_ary, pageIndex, index, incrementor, result,
          job_handle, page_range_str, strtok_rest, page_range_split, fell_back,
          call, page_index, print_result, sent, submitted, jobParams, caps,
          print_format, params, decoder, job_state, cb_param, callback, reported,
          reported_before, callbackReceiver, global_refs, library>>

job_vars == <<len, mime_pdf, faceDownTray, pageRangeObject>>
range_vars == <<page_range_str, strtok_rest, page_range_split, fell_back, call>>
print_vars == <<page_index, print_result>>
param_vars == <<jobParams, caps, print_format, params>>
all_job_vars ==
    <<pc, job_vars, param_vars, pdf_pages_ary, page_range_arr, pages_ary, pageIndex,
      index, incrementor, result, job_handle, range_vars, print_vars, sent,
      submitted>>
listener_vars == <<reported, reported_before>>
jni_vars == <<callbackReceiver, global_refs, library>>
cb_vars == <<decoder, job_state, cb_param, callback, listener_vars, jni_vars>>

NullString == [null |-> TRUE, chars |-> << >>]
String(s) == [null |-> FALSE, chars |-> s]

NoCall ==
    [made |-> FALSE, crashed |-> FALSE, succeeded |-> FALSE, seg |-> << >>,
     before |-> 0, after |-> 0, ub |-> FALSE, scan |-> ScanInit]

Files == 0..(len - 1)

\* the settings of a run that starts no job
IdleParams ==
    /\ jobParams = [duplex |-> "DUPLEX_MODE_NONE", document_category |-> << >>,
                    shared_photo |-> FALSE, preserve_scaling |-> FALSE]
    /\ caps = [print_scalings_supported |-> << >>, print_scaling_default |-> ""]
    /\ print_format = "PRINT_FORMAT_PDF"
    /\ params = [duplex |-> "DUPLEX_MODE_NONE", docCategory |-> << >>,
                 print_scaling |-> ""]

\* no notification has been delivered
NoParam ==
    [null |-> TRUE, state |-> "none", job_done_result |-> "none",
     blocked_reasons |-> {}, certificate |-> FALSE]

NoEvent ==
    [null |-> TRUE, jobState |-> "NULL", jobDoneResult |-> "NULL",
     blockedReasons |-> [null |-> TRUE, elems |-> << >>], jobId |-> "none",
     certificate |-> FALSE]

\* _wprint_callback_fn is not running and has not run
NoCallback ==
    [pc |-> "idle", print_job_failed |-> FALSE, count |-> 0, event |-> NoEvent,
     calls |-> 0, exception |-> FALSE, needDetach |-> FALSE,
     receiver |-> 0, deleted |-> FALSE]

\* nativeInit has registered a receiver and wprintInit has succeeded
Registered ==
    /\ callbackReceiver = 1
    /\ global_refs = <<"live">>
    /\ library = "up"

IdleDispatcher ==
    /\ job_state = "none"
    /\ cb_param = NoParam
    /\ callback = NoCallback
    /\ reported = "none"
    /\ reported_before = "none"
    /\ Registered

\* no decoder call is under way
NoDecoder ==
    [pc |-> "idle", fn |-> "none", reasons |-> {}, count |-> 0,
     stringArray |-> << >>, reasonCount |-> 0, exception |-> FALSE]

IdleCallback ==
    /\ decoder = NoDecoder
    /\ IdleDispatcher

\* what every specification starts from, apart from the inputs
InitLocals ==
    /\ pages_ary = [d \in Files |-> << >>]
    /\ page_range_arr = [d \in Files |-> 0]
    /\ index = 0
    /\ incrementor = 1
    /\ result = ERROR
    /\ job_handle = ERROR
    /\ page_range_str = << >>
    /\ strtok_rest = << >>
    /\ page_range_split = NoToken
    /\ fell_back = FALSE
    /\ call = NoCall
    /\ page_index = 0
    /\ print_result = ERROR
    /\ sent = << >>
    /\ submitted = << >>

\* -------------------------------------------------- _get_pdf_page_range
\* a reading of the field that takes only null for "absent"
PageRangeOfNullOnly(obj) == IF obj.null THEN NullString ELSE String(obj.chars)

\* lines 357-377: the local page_range, NULL unless the field holds a
\* non-empty string
PageRangeOf(obj) ==
    IF obj.null \/ obj.chars = << >> THEN NullString ELSE String(obj.chars)

\* lines 357-393: read the field, build page_range and page_range_str, clear
\* the row, take the first token
GetRangeBegin ==
    /\ pc = "range_begin"
    /\ LET page_range == PageRangeOf(pageRangeObject)
           effective == IF page_range.null THEN FullRange(pdf_pages_ary[pageIndex])
                        ELSE page_range.chars
           t == strtok(effective)
       IN  /\ page_range_str' = effective
           /\ page_range_split' = t.tok
           /\ strtok_rest' = t.rest
    /\ pages_ary' = [pages_ary EXCEPT ![pageIndex] = << >>]
    /\ pc' = "range_loop"
    /\ UNCHANGED <<job_vars, param_vars, cb_vars, pdf_pages_ary, page_range_arr, pageIndex, index,
                   incrementor, result, job_handle, fell_back, call, print_vars,
                   sent, submitted>>

CallRecord(o) ==
    [made |-> TRUE, crashed |-> o.crashed, succeeded |-> o.succeeded,
     seg |-> o.info.seg, before |-> o.info.before, after |-> o.num_index,
     ub |-> o.info.ub, scan |-> o.info.scan]

\* lines 394-395, 403: parse the current token; on success take the next one
ParseSegment ==
    /\ pc = "range_loop"
    /\ ~page_range_split.null
    /\ \E o \in order_pdf_pages(pdf_pages_ary[pageIndex], pages_ary[pageIndex],
                                page_range_arr[pageIndex], page_range_split.chars) :
          /\ call' = CallRecord(o)
          /\ pages_ary' = [pages_ary EXCEPT ![pageIndex] = o.pages_ary]
          /\ page_range_arr' = [page_range_arr EXCEPT ![pageIndex] = o.num_index]
          /\ IF o.crashed
             THEN /\ pc' = "crashed"
                  /\ UNCHANGED <<page_range_split, strtok_rest>>
             ELSE IF o.succeeded
             THEN LET t == strtok(strtok_rest)
                  IN  /\ page_range_split' = t.tok
                      /\ strtok_rest' = t.rest
                      /\ pc' = "range_loop"
             ELSE /\ pc' = "range_fallback"
                  /\ UNCHANGED <<page_range_split, strtok_rest>>
    /\ UNCHANGED <<job_vars, param_vars, cb_vars, pdf_pages_ary, pageIndex, index, incrementor, result,
                   job_handle, page_range_str, fell_back, print_vars, sent, submitted>>

\* lines 396-399: the display string becomes "1-N", the parser runs on it with
\* the same pages_ary and num_index, and the loop is left
RangeFallback ==
    /\ pc = "range_fallback"
    /\ page_range_str' = FullRange(pdf_pages_ary[pageIndex])
    /\ fell_back' = TRUE
    /\ \E o \in order_pdf_pages(pdf_pages_ary[pageIndex], pages_ary[pageIndex],
                                page_range_arr[pageIndex],
                                FullRange(pdf_pages_ary[pageIndex])) :
          /\ call' = CallRecord(o)
          /\ pages_ary' = [pages_ary EXCEPT ![pageIndex] = o.pages_ary]
          /\ page_range_arr' = [page_range_arr EXCEPT ![pageIndex] = o.num_index]
          /\ pc' = IF o.crashed THEN "crashed" ELSE "range_done"
    /\ UNCHANGED <<job_vars, param_vars, cb_vars, pdf_pages_ary, pageIndex, index, incrementor, result,
                   job_handle, strtok_rest, page_range_split, print_vars, sent,
                   submitted>>

\* lines 394, 406-409: no token left
RangeReturn ==
    /\ pc = "range_loop"
    /\ page_range_split.null
    /\ pc' = "range_done"
    /\ UNCHANGED <<job_vars, param_vars, cb_vars, pdf_pages_ary, page_range_arr, pages_ary, pageIndex,
                   index, incrementor, result, job_handle, range_vars, print_vars,
                   sent, submitted>>

\* The resolver alone: one PDF file of num_pages pages, the field drawn from
\* all strings of at most MaxLen characters, control at the call at line 1854.
InitRange ==
    /\ pc = "range_begin"
    /\ len = 1
    /\ mime_pdf = TRUE
    /\ faceDownTray = TRUE
    /\ pageRangeObject \in {NullString} \cup {String(s) : s \in Strings(MaxLen)}
    /\ pdf_pages_ary \in [0..0 -> 0..MaxPages]
    /\ pageIndex = 0
    /\ IdleParams
    /\ IdleCallback
    /\ InitLocals

NextRange == GetRangeBegin \/ ParseSegment \/ RangeFallback \/ RangeReturn

SpecRange == InitRange /\ [][NextRange]_vars

\* ------------------------------------------------------- _print_pdf_pages
Transmission(op, file, page, content, last, pdf, res) ==
    [op |-> op, file |-> file, page |-> page, content |-> content, last |-> last,
     pdf |-> pdf, result |-> res]

\* a start index that is 0 whatever the tray
FirstPageIndexForward(faceDown, num_pages) == 0

\* lines 426, 438: page_index = 0, or page_index = num_pages - 1
FirstPageIndex(faceDown, num_pages) == IF faceDown THEN 0 ELSE num_pages - 1

\* lines 429, 442: page_index++ or page_index--
NextPageIndex(faceDown, i) == IF faceDown THEN i + 1 ELSE i - 1

\* lines 427, 439: while (page_index < num_pages), while (page_index >= 0)
MorePages(faceDown, i, num_pages) == IF faceDown THEN i < num_pages ELSE i >= 0

\* *(pages_ary + i): a written cell, or a cell still holding the 0 of the
\* memset at line 392
PageAt(row, i) == IF i + 1 \in 1..Len(row) THEN row[i + 1] ELSE 0

\* lines 1969-1971, 416-426, 438: nativeStartJob calls _print_pdf_pages for the
\* file at index
EnterPrintPdf ==
    /\ pc = "doc_loop"
    /\ result = OK
    /\ pageIndex <= len
    /\ mime_pdf
    /\ page_index' = FirstPageIndex(faceDownTray, page_range_arr[index])
    /\ print_result' = ERROR
    /\ submitted' = Append(submitted, index)
    /\ pc' = "print_pages"
    /\ UNCHANGED <<job_vars, param_vars, cb_vars, pdf_pages_ary, page_range_arr, pages_ary, pageIndex,
                   index, incrementor, result, job_handle, range_vars, sent>>

\* lines 427-435, 439-447: one wprintPage call of the loop; the transmitter
\* answers OK or ERROR
PrintPage ==
    /\ pc = "print_pages"
    /\ MorePages(faceDownTray, page_index, page_range_arr[index])
    /\ \E r \in {OK, ERROR} :
          /\ sent' = Append(sent, Transmission("page", index,
                                PageAt(pages_ary[index], page_index), TRUE, FALSE, TRUE, r))
          /\ print_result' = r
          /\ pc' = IF r # OK THEN "print_break" ELSE "print_pages"
    /\ page_index' = NextPageIndex(faceDownTray, page_index)
    /\ UNCHANGED <<job_vars, param_vars, cb_vars, pdf_pages_ary, page_range_arr, pages_ary, pageIndex,
                   index, incrementor, result, job_handle, range_vars, submitted>>

\* lines 450-451, 1970, 1977-1978: _print_pdf_pages returns its result, the
\* loop of nativeStartJob steps to the next file
PrintReturn ==
    /\ \/ pc = "print_break"
       \/ /\ pc = "print_pages"
          /\ ~MorePages(faceDownTray, page_index, page_range_arr[index])
    /\ result' = print_result
    /\ index' = index + incrementor
    /\ pageIndex' = pageIndex + 1
    /\ pc' = "doc_loop"
    /\ UNCHANGED <<job_vars, param_vars, cb_vars, pdf_pages_ary, page_range_arr, pages_ary, incrementor,
                   job_handle, range_vars, print_vars, sent, submitted>>

\* --------------------------------------------------------- nativeStartJob
JOB == "job"

\* lines 1824-1841, 1947-1950, 1990-1997: no files: result stays ERROR and the
\* function returns it; otherwise the counting loop starts
JobBegin ==
    /\ pc = "job_begin"
    /\ IF len > 0
       THEN /\ result' = OK
            /\ pageIndex' = 0
            /\ pc' = "count_loop"
       ELSE /\ pc' = "returned"
            /\ UNCHANGED <<result, pageIndex>>
    /\ UNCHANGED <<job_vars, param_vars, cb_vars, pdf_pages_ary, page_range_arr, pages_ary, index,
                   incrementor, job_handle, range_vars, print_vars, sent, submitted>>

\* _get_pdf_page_count, lines 243-250: a negative count becomes 0
PageCount(n) == IF n < 0 THEN 0 ELSE n

\* lines 1842-1855 for a PDF job: the page count of the file, num_index = 0,
\* and the call of _get_pdf_page_range
CountPdfPages ==
    /\ pc = "count_loop"
    /\ pageIndex < len
    /\ mime_pdf
    /\ \E n \in -1..MaxPages :
          pdf_pages_ary' = [pdf_pages_ary EXCEPT ![pageIndex] = PageCount(n)]
    /\ page_range_arr' = [page_range_arr EXCEPT ![pageIndex] = 0]
    /\ pc' = "range_begin"
    /\ UNCHANGED <<job_vars, param_vars, cb_vars, pages_ary, pageIndex, index, incrementor, result,
                   job_handle, range_vars, print_vars, sent, submitted>>

\* lines 1842-1859 for another mime type: _get_pdf_page_count returns false
SkipNonPdf ==
    /\ pc = "count_loop"
    /\ pageIndex < len
    /\ ~mime_pdf
    /\ pageIndex' = pageIndex + 1
    /\ UNCHANGED <<pc, job_vars, param_vars, cb_vars, pdf_pages_ary, page_range_arr, pages_ary, index,
                   incrementor, result, job_handle, range_vars, print_vars, sent,
                   submitted>>

\* lines 1855-1859: _get_pdf_page_range has returned
CountNext ==
    /\ pc = "range_done"
    /\ pageIndex' = pageIndex + 1
    /\ pc' = "count_loop"
    /\ UNCHANGED <<job_vars, param_vars, cb_vars, pdf_pages_ary, page_range_arr, pages_ary, index,
                   incrementor, result, job_handle, range_vars, print_vars, sent,
                   submitted>>

\* lines 1954-1960
FirstFile(faceDown, n) == IF faceDown THEN 0 ELSE n - 1
Step(faceDown) == IF faceDown THEN 1 ELSE -1

\* ------------------------------------------ smart duplex, print scaling
DUPLEX_MODE_NONE == "DUPLEX_MODE_NONE"
DUPLEX_MODE_BOOK == "DUPLEX_MODE_BOOK"
PRINT_FORMAT_PDF == "PRINT_FORMAT_PDF"
PRINT_FORMAT_PCLM == "PRINT_FORMAT_PCLM"
PRINT_FORMAT_PWG == "PRINT_FORMAT_PWG"

\* duplex off for every job of one file
SmartDuplexAnyCount(n, is_pdf, num_index, duplex) ==
    IF n = 1 THEN DUPLEX_MODE_NONE ELSE duplex

\* lines 1867-1877: params.duplex after the smart duplex test, num_index
\* being page_range_arr[0]
SmartDuplex(n, is_pdf, num_index, duplex) ==
    IF n = 1
    THEN IF is_pdf
         THEN IF num_index = 1 THEN DUPLEX_MODE_NONE ELSE duplex
         ELSE DUPLEX_MODE_NONE
    ELSE duplex

\* tolower() on the letters the model's categories are written with
tolower(c) == CASE c = "P" -> "p" [] c = "D" -> "d" [] OTHER -> c

\* strcasecmp(a, b) == 0
strcasecmp_eq(a, b) ==
    /\ Len(a) = Len(b)
    /\ \A i \in 1..Len(a) : tolower(a[i]) = tolower(b[i])

\* strcmp(a, b) == 0
strcmp_eq(a, b) == a = b

Photo == <<"P", "h", "o", "t", "o">>

\* lines 1894-1899, 1902-1908, 1920-1925: the loop that looks for a keyword
\* in caps.print_scalings_supported
ScalingSupported(c, keyword) ==
    \E i \in 1..Len(c.print_scalings_supported) :
        strcmp_eq(c.print_scalings_supported[i], keyword)

\* lines 1889, 1894-1899, 1920-1925: "none" when it is supported, else the
\* initial ""
NoneIfSupported(c) == IF ScalingSupported(c, "none") THEN "none" ELSE ""

\* "auto" or "fit", whatever the printer's default
AutoOrFit(c) == IF ScalingSupported(c, "auto") THEN "auto" ELSE "fit"

\* lines 1901-1916: "auto" when it is supported, else the default when it is
\* not "", else "fit"
AutoOrDefault(c) ==
    IF ScalingSupported(c, "auto") THEN "auto"
    ELSE IF ~strcmp_eq(c.print_scaling_default, "") THEN c.print_scaling_default
    ELSE "fit"

\* line 1892 with strcmp in the place of strcasecmp
IsPhotoExact(category) == strcmp_eq(category, Photo)

\* line 1892: is_photo
IsPhoto(category) == strcasecmp_eq(category, Photo)

\* lines 1889-1928: the value copied into params.print_scaling (every
\* keyword of the model fits the buffers of the copies)
PrintScaling(format, category, shared_photo, preserve_scaling, c) ==
    IF strcmp_eq(format, PRINT_FORMAT_PDF)
    THEN IF (IsPhoto(category) /\ shared_photo) \/ preserve_scaling
         THEN NoneIfSupported(c)
         ELSE AutoOrDefault(c)
    ELSE NoneIfSupported(c)

\* lines 948-949, 1026-1035: what _convertJobParams_to_C copies from the Java
\* object; print_scaling is set at line 1928 only
ConvertJobParams(jp) ==
    [duplex |-> jp.duplex, docCategory |-> jp.document_category, print_scaling |-> ""]

\* lines 1861-1962: smart duplex, print scaling, then wprintStartJob, which
\* answers a job handle or ERROR; on ERROR the function returns it, otherwise
\* the submission loop is set up. The file names are strings the JVM hands
\* out (pageStr is not NULL).
\* whatever wprintStartJob answered, the job is taken as started
StartedAlways(start_result) == TRUE

\* line 1950: if (result != ERROR)
StartedJob(start_result) == start_result # ERROR

StartJob ==
    /\ pc = "count_loop"
    /\ pageIndex = len
    /\ params' =
          [params EXCEPT
              !.duplex = SmartDuplex(len, mime_pdf, page_range_arr[0], params.duplex),
              !.print_scaling = PrintScaling(print_format, params.docCategory,
                                             jobParams.shared_photo,
                                             jobParams.preserve_scaling, caps)]
    /\ \E r \in {JOB, ERROR} :
          /\ sent' = Append(sent, Transmission("start", 0, 0, FALSE, FALSE, FALSE, r))
          /\ IF ~StartedJob(r)
             THEN /\ result' = ERROR
                  /\ pc' = "returned"
                  /\ UNCHANGED <<job_handle, index, incrementor, pageIndex>>
             ELSE /\ job_handle' = r
                  /\ index' = FirstFile(faceDownTray, len)
                  /\ incrementor' = Step(faceDownTray)
                  /\ result' = OK
                  /\ pageIndex' = 1
                  /\ pc' = "doc_loop"
    /\ UNCHANGED <<job_vars, jobParams, caps, print_format, cb_vars, pdf_pages_ary,
                   page_range_arr, pages_ary, range_vars, print_vars, submitted>>

\* lines 1963-1979 for a file that is no PDF: one wprintPage call
SubmitFile ==
    /\ pc = "doc_loop"
    /\ result = OK
    /\ pageIndex <= len
    /\ ~mime_pdf
    /\ \E r \in {OK, ERROR} :
          /\ sent' = Append(sent, Transmission("page", index, pageIndex, TRUE, FALSE,
                                               FALSE, r))
          /\ result' = r
    /\ submitted' = Append(submitted, index)
    /\ index' = index + incrementor
    /\ pageIndex' = pageIndex + 1
    /\ UNCHANGED <<pc, job_vars, param_vars, cb_vars, pdf_pages_ary, page_range_arr, pages_ary,
                   incrementor, job_handle, range_vars, print_vars>>

\* no call at line 1981
LastPageOmitted(page_num) == << >>

\* line 1981: wprintPage(job_handle, pageIndex, NULL, true, false, ...), the
\* calls it adds to those made so far
LastPage(page_num) == <<Transmission("page", 0, page_num, FALSE, TRUE, FALSE, OK)>>

\* the end marker only for a job whose pages were all added: after a failure
\* cancel and end, and no marker
FinishJobMarkerOnSuccess ==
    /\ pc = "doc_loop"
    /\ ~(result = OK /\ pageIndex <= len)
    /\ LET cancel == Transmission("cancel", 0, 0, FALSE, FALSE, FALSE, OK)
           end == Transmission("end", 0, 0, FALSE, FALSE, FALSE, OK)
       IN  IF result # OK
           THEN /\ sent' = sent \o <<cancel, end>>
                /\ job_handle' = ERROR
           ELSE /\ sent' = sent \o LastPage(pageIndex)
                /\ UNCHANGED job_handle
    /\ pc' = "returned"
    /\ UNCHANGED <<job_vars, param_vars, cb_vars, pdf_pages_ary, page_range_arr, pages_ary, pageIndex,
                   index, incrementor, result, range_vars, print_vars, submitted>>

\* lines 1981-1997: the loop is over; the end marker, and after a failure the
\* cancel and end calls and the ERROR return value
FinishJob ==
    /\ pc = "doc_loop"
    /\ ~(result = OK /\ pageIndex <= len)
    /\ LET cancel == Transmission("cancel", 0, 0, FALSE, FALSE, FALSE, OK)
           end == Transmission("end", 0, 0, FALSE, FALSE, FALSE, OK)
       IN  IF result # OK
           THEN /\ sent' = sent \o LastPage(pageIndex) \o <<cancel, end>>
                /\ job_handle' = ERROR
           ELSE /\ sent' = sent \o LastPage(pageIndex)
                /\ UNCHANGED job_handle
    /\ pc' = "returned"
    /\ UNCHANGED <<job_vars, param_vars, cb_vars, pdf_pages_ary, page_range_arr, pages_ary, pageIndex,
                   index, incrementor, result, range_vars, print_vars, submitted>>

\* the page range fields a job is started with: absent, empty, without any
\* segment, one page, descending, repeating, out of order, with a failing
\* segment, with blanks
JobRanges ==
    {NullString, String(<< >>), String(<<",">>), String(<<"2">>),
     String(<<"2", "-", "1">>),
     String(<<"1", ",", "1">>), String(<<"2", ",", "1">>), String(<<"1", ",", "z">>),
     String(<<" ", "1", "-", "2">>)}

\* the scaling keywords a printer lists, and the lists of at most n of them
ScalingKeywords == {"auto", "fill", "none"}
ScalingLists(n) == UNION {[1..k -> ScalingKeywords] : k \in 0..n}

Capabilities(n) ==
    [print_scalings_supported : ScalingLists(n), print_scaling_default : {"", "fill"}]

Categories == {Photo, <<"p", "h", "o", "t", "o">>, <<"D", "o", "c">>, << >>}

JobParameters(duplexes) ==
    [duplex : duplexes, document_category : Categories, shared_photo : BOOLEAN,
     preserve_scaling : BOOLEAN]

PrintFormats == {PRINT_FORMAT_PDF, PRINT_FORMAT_PCLM, PRINT_FORMAT_PWG}

\* the settings the jobs of Spec are started with: a document without
\* flags, either duplex mode, PDF pass-through or raster, on a printer that
\* lists no keyword or "none" and "auto"
JobSettings ==
    {<<jp, c, f>> \in JobParameters({DUPLEX_MODE_NONE, DUPLEX_MODE_BOOK})
                       \X Capabilities(2) \X {PRINT_FORMAT_PDF, PRINT_FORMAT_PWG} :
        /\ jp.document_category = <<"D", "o", "c">>
        /\ ~jp.shared_photo /\ ~jp.preserve_scaling
        /\ c.print_scalings_supported \in {<< >>, <<"none", "auto">>}
        /\ c.print_scaling_default = "fill"}

\* A job: up to MaxDocs files of one mime type, either tray, the page range
\* field drawn from JobRanges, the settings from JobSettings.
Init ==
    /\ pc = "job_begin"
    /\ len \in 0..MaxDocs
    /\ mime_pdf \in BOOLEAN
    /\ faceDownTray \in BOOLEAN
    /\ pageRangeObject \in JobRanges
    /\ pdf_pages_ary = [d \in Files |-> 0]
    /\ pageIndex = 0
    /\ \E js \in JobSettings :
          /\ jobParams = js[1]
          /\ caps = js[2]
          /\ print_format = js[3]
    /\ params = ConvertJobParams(jobParams)
    /\ IdleCallback
    /\ InitLocals

Next ==
    \/ JobBegin
    \/ CountPdfPages
    \/ SkipNonPdf
    \/ GetRangeBegin
    \/ ParseSegment
    \/ RangeFallback
    \/ RangeReturn
    \/ CountNext
    \/ StartJob
    \/ EnterPrintPdf
    \/ PrintPage
    \/ PrintReturn
    \/ SubmitFile
    \/ FinishJob

Spec == Init /\ [][Next]_vars

\* The scaling selector on every setting: a job of one file with the page
\* range field absent, the settings drawn from all categories, flags,
\* formats, and lists of at most MaxScalings supported keywords.
InitScaling ==
    /\ pc = "job_begin"
    /\ len = 1
    /\ mime_pdf \in BOOLEAN
    /\ faceDownTray = TRUE
    /\ pageRangeObject = NullString
    /\ pdf_pages_ary = [d \in Files |-> 0]
    /\ pageIndex = 0
    /\ jobParams \in JobParameters({DUPLEX_MODE_BOOK})
    /\ caps \in Capabilities(MaxScalings)
    /\ print_format \in PrintFormats
    /\ params = ConvertJobParams(jobParams)
    /\ IdleCallback
    /\ InitLocals

SpecScaling == InitScaling /\ [][Next]_vars

\* ------------------------------ processFailReasons, processBlockStatus
\* An unsigned long long is the set of the indexes of its set bits.
LONG_BITS == 64
INT_BITS == 32

\* a NULL jstring
NULL == "NULL"

\* lines 1194-1261 and 1294-1496: the tests of the two else-if chains, in
\* the order written, with the string each one picks
FailChain ==
  <<[constant |-> "JOB_FAIL_REASON_UNABLE_TO_CONNECT",
     jStr |-> "BLOCKED_REASON__OFFLINE"],
    [constant |-> "JOB_FAIL_REASON_ABORTED_BY_SYSTEM",
     jStr |-> "JOB_FAIL_REASON__ABORTED_BY_SYSTEM"],
    [constant |-> "JOB_FAIL_REASON_UNSUPPORTED_COMPRESSION",
     jStr |-> "JOB_FAIL_REASON__UNSUPPORTED_COMPRESSION"],
    [constant |-> "JOB_FAIL_REASON_COMPRESSION_ERROR",
     jStr |-> "JOB_FAIL_REASON__COMPRESSION_ERROR"],
    [constant |-> "JOB_FAIL_REASON_UNSUPPORTED_DOCUMENT_FORMAT",
     jStr |-> "JOB_FAIL_REASON__UNSUPPORTED_DOCUMENT_FORMAT"],
    [constant |-> "JOB_FAIL_REASON_DOCUMENT_FORMAT_ERROR",
     jStr |-> "JOB_FAIL_REASON__DOCUMENT_FORMAT_ERROR"],
    [constant |-> "JOB_FAIL_REASON_SERVICE_OFFLINE",
     jStr |-> "JOB_FAIL_REASON__SERVICE_OFFLINE"],
    [constant |-> "JOB_FAIL_REASON_DOCUMENT_PASSWORD_ERROR",
     jStr |-> "JOB_FAIL_REASON__DOCUMENT_PASSWORD_ERROR"],
    [constant |-> "JOB_FAIL_REASON_DOCUMENT_PERMISSION_ERROR",
     jStr |-> "JOB_FAIL_REASON__DOCUMENT_PERMISSION_ERROR"],
    [constant |-> "JOB_FAIL_REASON_DOCUMENT_SECURITY_ERROR",
     jStr |-> "JOB_FAIL_REASON__DOCUMENT_SECURITY_ERROR"],
    [constant |-> "JOB_FAIL_REASON_DOCUMENT_UNPRINTABLE_ERROR",
     jStr |-> "JOB_FAIL_REASON__DOCUMENT_UNPRINTABLE_ERROR"],
    [constant |-> "JOB_FAIL_REASON_DOCUMENT_ACCESS_ERROR",
     jStr |-> "JOB_FAIL_REASON__DOCUMENT_ACCESS_ERROR"],
    [constant |-> "JOB_FAIL_REASON_SUBMISSION_INTERRUPTED",
     jStr |-> "JOB_FAIL_REASON__SUBMISSION_INTERRUPTED"],
    [constant |-> "JOB_FAIL_REASON_AUTHORIZATION_FAILED",
     jStr |-> "JOB_DONE_AUTHORIZATION_FAILED"],
    [constant |-> "JOB_FAIL_REASON_ACCOUNT_CLOSED",
     jStr |-> "JOB_DONE_ACCOUNT_CLOSED"],
    [constant |-> "JOB_FAIL_REASON_ACCOUNT_INFO_NEEDED",
     jStr |-> "JOB_DONE_ACCOUNT_INFO_NEEDED"],
    [constant |-> "JOB_FAIL_REASON_ACCOUNT_LIMIT_REACHED",
     jStr |-> "JOB_DONE_ACCOUNT_LIMIT_REACHED"]>>

BlockChain ==
  <<[constant |-> "BLOCKED_REASON_UNABLE_TO_CONNECT",
     jStr |-> "BLOCKED_REASON__OFFLINE"],
    [constant |-> "BLOCKED_REASON_BUSY",
     jStr |-> "BLOCKED_REASON__BUSY"],
    [constant |-> "BLOCKED_REASONS_CANCELLED",
     jStr |-> "BLOCKED_REASON__CANCELLED"],
    [constant |-> "BLOCKED_REASON_OUT_OF_PAPER",
     jStr |-> "BLOCKED_REASON__OUT_OF_PAPER"],
    [constant |-> "BLOCKED_REASON_OUT_OF_INK",
     jStr |-> "BLOCKED_REASON__OUT_OF_INK"],
    [constant |-> "BLOCKED_REASON_OUT_OF_TONER",
     jStr |-> "BLOCKED_REASON__OUT_OF_TONER"],
    [constant |-> "BLOCKED_REASON_JAMMED",
     jStr |-> "BLOCKED_REASON__JAMMED"],
    [constant |-> "BLOCKED_REASON_DOOR_OPEN",
     jStr |-> "BLOCKED_REASON__DOOR_OPEN"],
    [constant |-> "BLOCKED_REASON_SVC_REQUEST",
     jStr |-> "BLOCKED_REASON__SERVICE_REQUEST"],
    [constant |-> "BLOCKED_REASON_PAUSED",
     jStr |-> "BLOCKED_REASON__PAUSED"],
    [constant |-> "BLOCKED_REASON_STOPPED",
     jStr |-> "BLOCKED_REASON__STOPPED"],
    [constant |-> "BLOCKED_REASON_LOW_ON_INK",
     jStr |-> "BLOCKED_REASON__LOW_ON_INK"],
    [constant |-> "BLOCKED_REASON_LOW_ON_TONER",
     jStr |-> "BLOCKED_REASON__LOW_ON_TONER"],
    [constant |-> "BLOCKED_REASON_INPUT_CANNOT_FEED_SIZE_SELECTED",
     jStr |-> "BLOCKED_REASON__INPUT_CANNOT_FEED_SIZE_SELECTED"],
    [constant |-> "BLOCKED_REASON_INTERLOCK_ERROR",
     jStr |-> "BLOCKED_REASON__INTERLOCK_ERROR"],
    [constant |-> "BLOCKED_REASON_OUTPUT_TRAY_MISSING",
     jStr |-> "BLOCKED_REASON__OUTPUT_TRAY_MISSING"],
    [constant |-> "BLOCKED_REASON_BANDER_ERROR",
     jStr |-> "BLOCKED_REASON__BANDER_ERROR"],
    [constant |-> "BLOCKED_REASON_BINDER_ERROR",
     jStr |-> "BLOCKED_REASON__BINDER_ERROR"],
    [constant |-> "BLOCKED_REASON_POWER_ERROR",
     jStr |-> "BLOCKED_REASON__POWER_ERROR"],
    [constant |-> "BLOCKED_REASON_CLEANER_ERROR",
     jStr |-> "BLOCKED_REASON__CLEANER_ERROR"],
    [constant |-> "BLOCKED_REASON_INPUT_TRAY_ERROR",
     jStr |-> "BLOCKED_REASON__INPUT_TRAY_ERROR"],
    [constant |-> "BLOCKED_REASON_INSERTER_ERROR",
     jStr |-> "BLOCKED_REASON__INSERTER_ERROR"],
    [constant |-> "BLOCKED_REASON_INTERPRETER_ERROR",
     jStr |-> "BLOCKED_REASON__INTERPRETER_ERROR"],
    [constant |-> "BLOCKED_REASON_MAKE_ENVELOPE_ERROR",
     jStr |-> "BLOCKED_REASON__MAKE_ENVELOPE_ERROR"],
    [constant |-> "BLOCKED_REASON_MARKER_ERROR",
     jStr |-> "BLOCKED_REASON__MARKER_ERROR"],
    [constant |-> "BLOCKED_REASON_MEDIA_ERROR",
     jStr |-> "BLOCKED_REASON__MEDIA_ERROR"],
    [constant |-> "BLOCKED_REASON_PERFORATER_ERROR",
     jStr |-> "BLOCKED_REASON__PERFORATER_ERROR"],
    [constant |-> "BLOCKED_REASON_PUNCHER_ERROR",
     jStr |-> "BLOCKED_REASON__PUNCHER_ERROR"],
    [constant |-> "BLOCKED_REASON_SEPARATION_CUTTER_ERROR",
     jStr |-> "BLOCKED_REASON__SEPARATION_CUTTER_ERROR"],
    [constant |-> "BLOCKED_REASON_SHEET_ROTATOR_ERROR",
     jStr |-> "BLOCKED_REASON__SHEET_ROTATOR_ERROR"],
    [constant |-> "BLOCKED_REASON_SLITTER_ERROR",
     jStr |-> "BLOCKED_REASON__SLITTER_ERROR"],
    [constant |-> "BLOCKED_REASON_STACKER_ERROR",
     jStr |-> "BLOCKED_REASON__STACKER_ERROR"],
    [constant |-> "BLOCKED_REASON_STAPLER_ERROR",
     jStr |-> "BLOCKED_REASON__STAPLER_ERROR"],
    [constant |-> "BLOCKED_REASON_STITCHER_ERROR",
     jStr |-> "BLOCKED_REASON__STITCHER_ERROR"],
    [constant |-> "BLOCKED_REASON_SUBUNIT_ERROR",
     jStr |-> "BLOCKED_REASON__SUBUNIT_ERROR"],
    [constant |-> "BLOCKED_REASON_TRIMMER_ERROR",
     jStr |-> "BLOCKED_REASON__TRIMMER_ERROR"],
    [constant |-> "BLOCKED_REASON_WRAPPER_ERROR",
     jStr |-> "BLOCKED_REASON__WRAPPER_ERROR"],
    [constant |-> "BLOCKED_REASON_CLIENT_ERROR",
     jStr |-> "BLOCKED_REASON__CLIENT_ERROR"],
    [constant |-> "BLOCKED_REASON_SERVER_ERROR",
     jStr |-> "BLOCKED_REASON__SERVER_ERROR"],
    [constant |-> "BLOCKED_REASON_ALERT_REMOVAL_OF_BINARY_CHANGE_ENTRY",
     jStr |-> "BLOCKED_REASON__ALERT_REMOVAL_OF_BINARY_CHANGE_ENTRY"],
    [constant |-> "BLOCKED_REASON_CONFIGURATION_CHANGED",
     jStr |-> "BLOCKED_REASON__CONFIGURATION_CHANGED"],
    [constant |-> "BLOCKED_REASON_CONNECTING_TO_DEVICE",
     jStr |-> "BLOCKED_REASON__CONNECTING_TO_DEVICE"],
    [constant |-> "BLOCKED_REASON_DEVELOPER_ERROR",
     jStr |-> "BLOCKED_REASON__DEVELOPER_ERROR"],
    [constant |-> "BLOCKED_REASON_HOLD_NEW_JOBS",
     jStr |-> "BLOCKED_REASON__HOLD_NEW_JOBS"],
    [constant |-> "BLOCKED_REASON_OPC_LIFE_OVER",
     jStr |-> "BLOCKED_REASON__OPC_LIFE_OVER"],
    [constant |-> "BLOCKED_REASON_SPOOL_AREA_FULL",
     jStr |-> "BLOCKED_REASON__SPOOL_AREA_FULL"],
    [constant |-> "BLOCKED_REASON_TIMED_OUT",
     jStr |-> "BLOCKED_REASON__TIMED_OUT"],
    [constant |-> "BLOCKED_REASON_SHUTDOWN",
     jStr |-> "BLOCKED_REASON__SHUTDOWN"],
    [constant |-> "BLOCKED_REASON_PRINTER_MANUAL_RESET",
     jStr |-> "BLOCKED_REASON__PRINTER_MANUAL_RESET"],
    [constant |-> "BLOCKED_REASON_PRINTER_NMS_RESET",
     jStr |-> "BLOCKED_REASON__PRINTER_NMS_RESET"]>>

\* The header that numbers the reasons is not among the sources. The k-th
\* test of a chain is given the k-th named enumerant, the chains being
\* written "in the same sequence as defined by" the enums (lines 1186-1187,
\* 1287-1288); enumerants without a test come before and after the named
\* ones: 0 and 18 among the job state reasons, 0, 1, 52 and 53 among the
\* print statuses.
IPP_JOB_STATE_REASON_MAX_VALUE == 19
PRINT_STATUS_MAX_STATE == 54
FailBit(k) == k
BlockBit(k) == k + 1

\* LONG_ONE << i
Bit(i) == {i}

\* JOB_FAIL_REASON_..., BLOCKED_REASON_...: the value of the k-th constant
FailTable == [k \in 1..Len(FailChain) |->
                 [mask |-> Bit(FailBit(k)), jStr |-> FailChain[k].jStr]]
BlockTable == [k \in 1..Len(BlockChain) |->
                  [mask |-> Bit(BlockBit(k)), jStr |-> BlockChain[k].jStr]]

\* the bit is left as it is
ClearBitOmitted(reasons, i) == reasons

\* lines 1264, 1499: reasons &= ~(LONG_ONE << i)
ClearBit(reasons, i) == reasons \ Bit(i)

\* the string of the last test of the chain that finds one of its bits
ChainMatchLast(reasons, table) ==
    LET hits == {k \in 1..Len(table) : (reasons \cap table[k].mask) # {}}
    IN  IF hits = {} THEN NULL
        ELSE table[CHOOSE k \in hits : \A j \in hits : k >= j].jStr

\* lines 1194-1262, 1294-1497: the string of the first test of the chain
\* that finds one of its bits in reasons, NULL when none does
ChainMatch(reasons, table) ==
    LET hits == {k \in 1..Len(table) : (reasons \cap table[k].mask) # {}}
    IN  IF hits = {} THEN NULL
        ELSE table[CHOOSE k \in hits : \A j \in hits : k <= j].jStr

\* lines 1180-1184, 1281-1285: an array of count strings, each ""
NewObjectArray(count) == [i \in 1..count |-> ""]

\* lines 1189-1270, 1289-1505: the loop from bit i on. A store at an index
\* the array does not have stores nothing and raises
\* ArrayIndexOutOfBoundsException.
RECURSIVE ReasonLoop(_, _, _, _, _, _, _)
ReasonLoop(i, reasons, table, max_value, stringArray, reasonCount, exception) ==
    IF i >= max_value
    THEN [stringArray |-> stringArray, reasonCount |-> reasonCount,
          exception |-> exception]
    ELSE LET jStr == IF (reasons \cap Bit(i)) = {} THEN NULL
                     ELSE ChainMatch(reasons, table)
         IN  IF jStr # NULL
             THEN ReasonLoop(i + 1, ClearBit(reasons, i), table, max_value,
                             IF reasonCount < Len(stringArray)
                             THEN [stringArray EXCEPT ![reasonCount + 1] = jStr]
                             ELSE stringArray,
                             reasonCount + 1,
                             exception \/ reasonCount >= Len(stringArray))
             ELSE ReasonLoop(i + 1, ClearBit(reasons, i), table, max_value,
                             stringArray, reasonCount, exception)

\* lines 1175-1271
processFailReasons(fail_reasons, count) ==
    ReasonLoop(0, fail_reasons, FailTable, IPP_JOB_STATE_REASON_MAX_VALUE,
               NewObjectArray(count), 0, FALSE)

\* lines 1276-1506
processBlockStatus(blocked_reasons, count) ==
    ReasonLoop(0, blocked_reasons, BlockTable, PRINT_STATUS_MAX_STATE,
               NewObjectArray(count), 0, FALSE)

\* the bits the reason masks of the model are made of: with and without a
\* test in either chain, below, at and above either bound, around bit 31
BitIndexes == {0, 1, 2, 5, 18, 19, 30, 31, 32, 40, 53, 54, 63}
Masks(n) ==
    {m \in SUBSET (BitIndexes \cap 0..(LONG_BITS - 1)) : Cardinality(m) <= n}

DecoderCall(fn, reasons, count) ==
    [pc |-> fn, fn |-> fn, reasons |-> reasons, count |-> count,
     stringArray |-> << >>, reasonCount |-> 0, exception |-> FALSE]

DecoderReturn(r) ==
    [decoder EXCEPT !.pc = "returned", !.stringArray = r.stringArray,
                    !.reasonCount = r.reasonCount, !.exception = r.exception]

\* a call of processFailReasons
ProcessFailReasons ==
    /\ decoder.pc = "processFailReasons"
    /\ decoder' = DecoderReturn(processFailReasons(decoder.reasons, decoder.count))
    /\ UNCHANGED <<all_job_vars, job_state, cb_param, callback, listener_vars,
                   jni_vars>>

\* a call of processBlockStatus
ProcessBlockStatus ==
    /\ decoder.pc = "processBlockStatus"
    /\ decoder' = DecoderReturn(processBlockStatus(decoder.reasons, decoder.count))
    /\ UNCHANGED <<all_job_vars, job_state, cb_param, callback, listener_vars,
                   jni_vars>>

\* no job is being started
IdleJob ==
    /\ pc = "idle"
    /\ len = 0
    /\ mime_pdf = FALSE
    /\ faceDownTray = TRUE
    /\ pageRangeObject = NullString
    /\ pdf_pages_ary = [d \in Files |-> 0]
    /\ pageIndex = 0
    /\ IdleParams
    /\ InitLocals

\* The decoders alone: either function, on every mask of at most MaxSetBits
\* of the BitIndexes and every count up to MaxSetBits + 1.
InitDecoder ==
    /\ IdleJob
    /\ IdleDispatcher
    /\ decoder \in {DecoderCall(fn, m, c) :
                        fn \in {"processFailReasons", "processBlockStatus"},
                        m \in Masks(MaxSetBits), c \in 0..(MaxSetBits + 1)}

NextDecoder == ProcessFailReasons \/ ProcessBlockStatus

SpecDecoder == InitDecoder /\ [][NextDecoder]_vars

\* ---------------------------------------------------- _wprint_callback_fn
\* a value of the raw state or of the raw result that no case label names
UNLISTED == "unlisted"

JobStates == {"JOB_QUEUED", "JOB_RUNNING", "JOB_BLOCKED", "JOB_DONE"}
RawStates == JobStates \cup {UNLISTED}
DoneResults == {"OK", "ERROR", "CANCELLED", "CORRUPT", "BAD_CERTIFICATE"}
RawResults == DoneResults \cup {UNLISTED}

\* lines 1530-1556: the string put in jobState
JobState(state) ==
    CASE state = "JOB_QUEUED" -> "JOB_STATE_QUEUED"
      [] state = "JOB_RUNNING" -> "JOB_STATE_RUNNING"
      [] state = "JOB_BLOCKED" -> "JOB_STATE_BLOCKED"
      [] state = "JOB_DONE" -> "JOB_STATE_DONE"
      [] OTHER -> "JOB_STATE_OTHER"

\* the result is mapped whatever the state is
JobDoneResultAnyState(state, job_done_result) ==
    CASE job_done_result = "OK" -> "JOB_DONE_OK"
      [] job_done_result = "ERROR" -> "JOB_DONE_ERROR"
      [] job_done_result = "CANCELLED" -> "JOB_DONE_CANCELLED"
      [] job_done_result = "CORRUPT" -> "JOB_DONE_CORRUPT"
      [] job_done_result = "BAD_CERTIFICATE" -> "JOB_DONE_BAD_CERTIFICATE"
      [] OTHER -> "JOB_DONE_OTHER"

\* lines 1560-1598: the string put in jobDoneResult; the field of a new
\* object is null and stays so unless the state is JOB_DONE
JobDoneResult(state, job_done_result) ==
    IF state # "JOB_DONE" THEN NULL
    ELSE CASE job_done_result = "OK" -> "JOB_DONE_OK"
           [] job_done_result = "ERROR" -> "JOB_DONE_ERROR"
           [] job_done_result = "CANCELLED" -> "JOB_DONE_CANCELLED"
           [] job_done_result = "CORRUPT" -> "JOB_DONE_CORRUPT"
           [] job_done_result = "BAD_CERTIFICATE" -> "JOB_DONE_BAD_CERTIFICATE"
           [] OTHER -> "JOB_DONE_OTHER"

\* only ERROR marks the job as failed
PrintJobFailedOnError(state, job_done_result) ==
    state = "JOB_DONE" /\ job_done_result = "ERROR"

\* lines 1559-1583: print_job_failed
PrintJobFailed(state, job_done_result) ==
    state = "JOB_DONE" /\ job_done_result \in {"ERROR", "CORRUPT"}

\* lines 1603-1607: max_value_reasons
MaxValueReasons(print_job_failed) ==
    IF print_job_failed THEN IPP_JOB_STATE_REASON_MAX_VALUE
    ELSE PRINT_STATUS_MAX_STATE

\* Lines 1609-1613: count. 1 << i is an int: for i < 31 it is bit i of the
\* mask that is tested. For i >= 31 the shift is undefined (1 << 31 overflows
\* the int, a shift by 32 or more exceeds its width); whatever int it yields
\* is widened to 64 bits with its sign and tested against the mask, so that
\* on a mask that is not zero each of these iterations may count or not.
DefinedCount(blocked_reasons, max_value_reasons) ==
    Cardinality({i \in blocked_reasons :
                    i < max_value_reasons /\ i < INT_BITS - 1})
UndefinedShifts(max_value_reasons) ==
    {i \in 0..(max_value_reasons - 1) : i >= INT_BITS - 1}
CountOutcomes(blocked_reasons, max_value_reasons) ==
    {DefinedCount(blocked_reasons, max_value_reasons) + extra :
        extra \in IF blocked_reasons = {} THEN {0}
                  ELSE 0..Cardinality(UndefinedShifts(max_value_reasons))}

\* what GetEnv and AttachCurrentThread can answer: the thread is attached,
\* it is not and can be, it is not and cannot be
Envs == {"attached", "attachable", "unattachable"}

\* lines 1514-1516, 1520-1525: the function returns before it has an env
ReturnEarly == [NoCallback EXCEPT !.pc = "returned"]

\* lines 1616-1626: the array put in blockedReasons, with the exception the
\* decoder left pending
Reasons(blocked_reasons, print_job_failed, count) ==
    IF count > 0
    THEN LET r == IF print_job_failed
                  THEN processFailReasons(blocked_reasons, count)
                  ELSE processBlockStatus(blocked_reasons, count)
         IN  [null |-> FALSE, elems |-> r.stringArray, exception |-> r.exception]
    ELSE [null |-> TRUE, elems |-> << >>, exception |-> FALSE]

\* Lines 1527-1655, once NewObject has answered. A JNI call made while an
\* exception is pending is undefined: the listener is called all the same,
\* or the VM aborts before it is.
Dispatch(param, needDetach, allocated, count, aborts) ==
    IF ~allocated
    THEN [ReturnEarly EXCEPT !.needDetach = needDetach]
    ELSE LET print_job_failed ==
                 PrintJobFailed(param.state, param.job_done_result)
             stringArray == Reasons(param.blocked_reasons, print_job_failed, count)
             event ==
                 [null |-> FALSE,
                  jobState |-> JobState(param.state),
                  jobDoneResult |-> JobDoneResult(param.state, param.job_done_result),
                  blockedReasons |-> [null |-> stringArray.null,
                                      elems |-> stringArray.elems],
                  jobId |-> JOB,
                  certificate |-> param.certificate]
         IN  [pc |-> IF stringArray.exception /\ aborts THEN "aborted"
                     ELSE "returned",
              print_job_failed |-> print_job_failed,
              count |-> count,
              event |-> event,
              calls |-> IF stringArray.exception /\ aborts THEN 0 ELSE 1,
              exception |-> stringArray.exception,
              needDetach |-> needDetach,
              receiver |-> 0,
              deleted |-> FALSE]

\* lines 1511-1656: every way a call can go
CallbackOutcomes(param) ==
    IF param.null THEN {ReturnEarly}
    ELSE {[ReturnEarly EXCEPT !.needDetach = TRUE]}
         \cup {Dispatch(param, env = "attachable", allocated, count, aborts) :
                  env \in Envs \ {"unattachable"}, allocated \in BOOLEAN,
                  count \in CountOutcomes(
                               param.blocked_reasons,
                               MaxValueReasons(PrintJobFailed(
                                   param.state, param.job_done_result))),
                  aborts \in BOOLEAN}

\* the listener's jobCallback: it keeps the state of the event and the one
\* it had kept; an event of a state of no interest to it is kept only when
\* it comes after JOB_STATE_DONE
JobCallback(event) ==
    IF event.jobState = "JOB_STATE_OTHER" /\ reported # "JOB_STATE_DONE"
    THEN UNCHANGED listener_vars
    ELSE /\ reported' = event.jobState
         /\ reported_before' = reported

\* Lines 1648-1649: CallVoidMethod on _callbackReceiver, for a call c that
\* has come to it. Through a live reference the listener is called. A call
\* on 0 or on a reference that DeleteGlobalRef has deleted is undefined: on 0
\* no listener is called and the VM aborts or goes on; through a deleted
\* reference the VM aborts or calls whatever the reference now leads to.
CallVoidMethod(c) ==
    IF c.calls = 0 THEN {c}
    ELSE IF callbackReceiver = 0
    THEN {[c EXCEPT !.calls = 0], [c EXCEPT !.calls = 0, !.pc = "aborted"]}
    ELSE IF global_refs[callbackReceiver] = "live"
    THEN {[c EXCEPT !.receiver = callbackReceiver]}
    ELSE {[c EXCEPT !.receiver = callbackReceiver, !.deleted = TRUE],
          [c EXCEPT !.calls = 0, !.pc = "aborted"]}

\* a call of _wprint_callback_fn
wprint_callback_fn ==
    /\ callback.pc = "called"
    /\ \E d \in CallbackOutcomes(cb_param) :
          \E c \in CallVoidMethod(d) :
             /\ callback' = c
             /\ library' = IF c.pc = "aborted" THEN "aborted" ELSE library
             /\ IF c.calls = 1 THEN JobCallback(c.event)
                ELSE UNCHANGED listener_vars
    /\ UNCHANGED <<all_job_vars, decoder, job_state, cb_param, callbackReceiver,
                   global_refs>>

\* the bits the masks of the notifications are made of: one without a test
\* in either chain, one with a test in both, two that an int shift cannot
\* reach and that are below the bound of the print statuses, one above it
NotifiedBits == {0, 5, 32, 40, 63}
NotifiedMasks(n) ==
    {m \in SUBSET (NotifiedBits \cap 0..(LONG_BITS - 1)) : Cardinality(m) <= n}

Notification(state, job_done_result, blocked_reasons, certificate) ==
    [null |-> FALSE, state |-> state, job_done_result |-> job_done_result,
     blocked_reasons |-> blocked_reasons, certificate |-> certificate]

Notifications(n) ==
    {Notification(state, job_done_result, blocked_reasons, certificate) :
        state \in RawStates, job_done_result \in RawResults,
        blocked_reasons \in NotifiedMasks(n), certificate \in BOOLEAN}

Called == [NoCallback EXCEPT !.pc = "called"]

\* The dispatcher alone: one call, on a null param (NoParam) or on any notification
\* with a mask of at most MaxSetBits of the NotifiedBits.
InitCallback ==
    /\ IdleJob
    /\ decoder = NoDecoder
    /\ job_state = "none"
    /\ cb_param \in {NoParam} \cup Notifications(MaxSetBits)
    /\ callback = Called
    /\ reported = "none"
    /\ reported_before = "none"
    /\ Registered

NextCallback == wprint_callback_fn

SpecCallback == InitCallback /\ [][NextCallback]_vars

\* ------------------------------------------------ the transport's job
\* The library that runs the job and calls _wprint_callback_fn is not among
\* the sources. Its states are taken from the specification: Queued, then
\* Running, then Blocked and Running in turn, then Done, which is final; a
\* state outside these four can be notified wherever the job is not Done and
\* leaves the job where it is.
NextJobStates(state) ==
    CASE state = "none" -> {"JOB_QUEUED"}
      [] state = "JOB_QUEUED" -> {"JOB_RUNNING"}
      [] state = "JOB_RUNNING" -> {"JOB_BLOCKED", "JOB_DONE"}
      [] state = "JOB_BLOCKED" -> {"JOB_RUNNING", "JOB_DONE"}
      [] OTHER -> {}

\* the job moves on and the transport calls the callback with its new
\* state, once the call before has returned; the result is set when the
\* job is Done
Notify ==
    /\ callback.pc \in {"idle", "returned"}
    /\ job_state # "JOB_DONE"
    /\ \E state \in NextJobStates(job_state) \cup {UNLISTED},
          blocked_reasons \in NotifiedMasks(1), certificate \in BOOLEAN :
          \E job_done_result \in IF state = "JOB_DONE" THEN RawResults ELSE {"OK"} :
             /\ job_state' = IF state = UNLISTED THEN job_state ELSE state
             /\ cb_param' = Notification(state, job_done_result, blocked_reasons,
                                         certificate)
    /\ callback' = Called
    /\ UNCHANGED <<all_job_vars, decoder, listener_vars, jni_vars>>

\* One job from its start on: the transport's notifications, each handled
\* by _wprint_callback_fn.
InitNotifications ==
    /\ IdleJob
    /\ IdleCallback

NextNotifications == Notify \/ wprint_callback_fn

SpecNotifications == InitNotifications /\ [][NextNotifications]_vars

\* ----------------------------------------------- nativeInit, nativeExit
\* NewGlobalRef: the references with one more, which is live
NewGlobalRef(refs) == Append(refs, "live")

\* lines 2027-2029: DeleteGlobalRef(_callbackReceiver) when it is not 0;
\* the variable keeps its value
DeleteReceiver(receiver, refs) ==
    [callbackReceiver |-> receiver,
     global_refs |-> IF receiver = 0 THEN refs
                     ELSE [refs EXCEPT ![receiver] = "deleted"]]

\* a JNI call on a reference: undefined when the reference has been deleted
OnDeleted(receiver, refs) == receiver # 0 /\ refs[receiver] = "deleted"

\* Lines 1664-1680 and 585-596: nativeInit, with or without a receiver, and
\* with wprintInit succeeding or not. Without a receiver _callbackReceiver
\* keeps what it held; GetObjectClass is called on it unless it is 0, and
\* on a deleted reference the VM aborts or goes on.
nativeInit ==
    /\ library = "down"
    /\ callback.pc # "called"
    /\ Len(global_refs) < MaxRefs
    /\ \E receiver \in BOOLEAN, wprintInit \in {OK, ERROR}, aborts \in BOOLEAN :
          LET refs == IF receiver THEN NewGlobalRef(global_refs) ELSE global_refs
              handle == IF receiver THEN Len(refs) ELSE callbackReceiver
          IN  /\ callbackReceiver' = handle
              /\ global_refs' = refs
              /\ library' = IF OnDeleted(handle, refs) /\ aborts THEN "aborted"
                            ELSE IF wprintInit = OK THEN "up" ELSE "down"
    /\ UNCHANGED <<all_job_vars, decoder, job_state, cb_param, callback,
                   listener_vars>>

\* Lines 2021-2038: nativeExit; wprintExit ends the transport, which has no
\* notification under way. Deleting a deleted reference is undefined: the
\* VM aborts or goes on.
nativeExit ==
    /\ library = "up"
    /\ callback.pc # "called"
    /\ \E aborts \in BOOLEAN :
          LET r == DeleteReceiver(callbackReceiver, global_refs)
          IN  /\ callbackReceiver' = r.callbackReceiver
              /\ global_refs' = r.global_refs
              /\ library' = IF OnDeleted(callbackReceiver, global_refs) /\ aborts
                            THEN "aborted" ELSE "down"
    /\ UNCHANGED <<all_job_vars, decoder, job_state, cb_param, callback,
                   listener_vars>>

\* the transport, while the library is up, calls the callback for a job
\* that runs or is blocked
Deliver ==
    /\ library = "up"
    /\ callback.pc \in {"idle", "returned"}
    /\ \E state \in {"JOB_RUNNING", "JOB_BLOCKED"}, certificate \in BOOLEAN :
          /\ job_state' = state
          /\ cb_param' = Notification(state, "OK", {}, certificate)
    /\ callback' = Called
    /\ UNCHANGED <<all_job_vars, decoder, listener_vars, jni_vars>>

\* The library from process start: initialisations and shutdowns in turn,
\* and the notifications of the transport while it is up.
InitLifecycle ==
    /\ IdleJob
    /\ decoder = NoDecoder
    /\ job_state = "none"
    /\ cb_param = NoParam
    /\ callback = NoCallback
    /\ reported = "none"
    /\ reported_before = "none"
    /\ callbackReceiver = 0
    /\ global_refs = << >>
    /\ library = "down"

NextLifecycle == nativeInit \/ nativeExit \/ Deliver \/ wprint_callback_fn

SpecLifecycle == InitLifecycle /\ [][NextLifecycle]_vars

\* ================================================================ claims
\* Vocabulary of the claims, defined independently of the code's operators.

\* [1, 2, ..., n]
UpTo(n) == [i \in 1..n |-> i]

\* [a, a+1, ..., b] or [a, a-1, ..., b]
Run(a, b) ==
    IF a <= b THEN [i \in 1..(b - a + 1) |-> a + i - 1]
    ELSE [i \in 1..(a - b + 1) |-> a - i + 1]

Abs(x) == IF x < 0 THEN -x ELSE x

Reverse(s) == [i \in 1..Len(s) |-> s[Len(s) + 1 - i]]

IsPrefix(s, t) == Len(s) <= Len(t) /\ SubSeq(t, 1, Len(s)) = s

\* a non-empty string of decimal digits, and its value read from the right
IsNumeral(s) == s # << >> /\ \A i \in 1..Len(s) : s[i] \in DigitChars

RECURSIVE NumeralValue(_)
NumeralValue(s) ==
    IF s = << >> THEN 0
    ELSE 10 * NumeralValue(SubSeq(s, 1, Len(s) - 1)) + DigitVal(s[Len(s)])

\* the segment without its whitespace
Squeeze(seg) == SelectSeq(seg, LAMBDA c : c \notin WhiteSpace)

\* the pieces of s between its commas, empty pieces included
RECURSIVE SplitAll(_, _)
SplitAll(s, piece) ==
    IF s = << >> THEN <<piece>>
    ELSE IF Head(s) = "," THEN <<piece>> \o SplitAll(Tail(s), << >>)
    ELSE SplitAll(Tail(s), Append(piece, Head(s)))

Segments(s) == SplitAll(s, << >>)

\* the pairs (a, b) of pages of a document of n pages that a segment writes
\* as "a" or "a-b"
WrittenPairs(seg, n) ==
    LET written == Squeeze(seg)
    IN  {p \in (1..n) \X (1..n) :
            \/ written = Dec(p[1]) \o <<"-">> \o Dec(p[2])
            \/ p[1] = p[2] /\ written = Dec(p[1])}

ValidSegment(seg, n) == WrittenPairs(seg, n) # {}

Expansion(seg, n) ==
    LET p == CHOOSE q \in WrittenPairs(seg, n) : TRUE IN Run(p[1], p[2])

RECURSIVE Concatenation(_, _)
Concatenation(segs, n) ==
    IF segs = << >> THEN << >>
    ELSE Expansion(Head(segs), n) \o Concatenation(Tail(segs), n)

\* the resolved page list of file d: the first num_index entries of its row
ResolvedList(d) == SubSeq(pages_ary[d], 1, page_range_arr[d])

\* _get_pdf_page_range has returned for the file at pageIndex
Resolved == pc = "range_done"
N == pdf_pages_ary[pageIndex]
List == ResolvedList(pageIndex)
Count == page_range_arr[pageIndex]

\* what the latest parser call appended
Appended == SubSeq(pages_ary[pageIndex], call.before + 1, call.after)
BeginToken == CStr(call.scan.num_begin_ary)
EndToken == CStr(call.scan.num_end_ary)

\* C1: when a segment fails to parse, the resolver returns exactly [1..N]
\* with count N (N >= 1): nothing of the earlier segments is left.
C1_FallbackIsFullDocument ==
    (Resolved /\ fell_back /\ N >= 1) => (List = UpTo(N) /\ Count = N)

\* C2: for every expression and N >= 1 the resolver returns a non-empty list.
C2_NeverEmpty ==
    (Resolved /\ N >= 1) => (Count >= 1 /\ List # << >>)

C4_SegmentExpansion ==
    call.made =>
        \A p \in WrittenPairs(call.seg, N) :
            /\ call.succeeded
            /\ Appended = Run(p[1], p[2])
            /\ call.after - call.before = Abs(p[2] - p[1]) + 1

C4_Witness ==
    /\ call.made /\ call.succeeded
    /\ \E p \in WrittenPairs(call.seg, N) : p[1] > p[2]
    /\ \E i \in 1..Len(call.seg) : call.seg[i] \in WhiteSpace
    /\ Appended = <<2, 1>>

\* C5: when every comma-separated segment is valid, the resolved list is the
\* concatenation of the segments' expansions in the order written.
C5_Concatenation ==
    (Resolved /\ ~pageRangeObject.null /\ pageRangeObject.chars # << >>) =>
        LET segs == Segments(pageRangeObject.chars)
        IN  (\A i \in 1..Len(segs) : ValidSegment(segs[i], N))
                => List = Concatenation(segs, N)

C5_Witness ==
    /\ Resolved /\ ~pageRangeObject.null
    /\ Len(Segments(pageRangeObject.chars)) >= 2
    /\ \A i \in 1..Len(Segments(pageRangeObject.chars)) :
           ValidSegment(Segments(pageRangeObject.chars)[i], N)
    /\ List = <<2, 1, 2>>

\* C6: an absent or empty expression resolves to [1..N] and the display
\* string "1-N", for N >= 1.
C6_AbsentIsFullDocument ==
    (Resolved /\ N >= 1 /\ (pageRangeObject.null \/ pageRangeObject.chars = << >>))
    => /\ List = UpTo(N)
       /\ Len(page_range_str) >= 3
       /\ page_range_str[1] = "1" /\ page_range_str[2] = "-"
       /\ IsNumeral(SubSeq(page_range_str, 3, Len(page_range_str)))
       /\ page_range_str[3] # "0"
       /\ NumeralValue(SubSeq(page_range_str, 3, Len(page_range_str))) = N

C6_Witness ==
    /\ Resolved /\ N >= 2
    /\ ~pageRangeObject.null /\ pageRangeObject.chars = << >>
    /\ List = UpTo(N)

\* the non-empty comma-separated segments of the expression in effect
NonEmptySegments ==
    IF pageRangeObject.null \/ pageRangeObject.chars = << >> THEN 1
    ELSE Cardinality({i \in 1..Len(Segments(pageRangeObject.chars)) :
                         Segments(pageRangeObject.chars)[i] # << >>})

\* C7, as claimed: the resolved list is never longer than N (here already on
\* the runs in which every segment parsed, so that no fallback is involved).
C7_LengthAtMostN_Original == (Resolved /\ ~fell_back) => Count <= N

\* C7, amended: the resolved list is never longer than N times the number of
\* non-empty comma-separated segments of the expression in effect.
C7_LengthAtMostNPerSegment == Resolved => Count <= N * NonEmptySegments

C7_Witness == Resolved /\ ~fell_back /\ N >= 2 /\ Count > N /\ NonEmptySegments >= 2

\* ------------------------------------------------ claims about the job
\* the content transmissions of PDF file d, and the page numbers they carry
ContentOf(d) == SelectSeq(sent, LAMBDA e : e.op = "page" /\ e.pdf /\ e.file = d)
PagesSent(d) == [i \in 1..Len(ContentOf(d)) |-> ContentOf(d)[i].page]

\* the order the tray asks for
TrayOrder(list) == IF faceDownTray THEN list ELSE Reverse(list)

\* _print_pdf_pages was called for file d and has returned
Printed(d) ==
    /\ \E i \in 1..Len(submitted) : submitted[i] = d
    /\ ~(pc \in {"print_pages", "print_break"} /\ index = d)

Failed(e) == e.op = "page" /\ e.content /\ e.result # OK
NoFailure == \A i \in 1..Len(sent) : ~Failed(sent[i])
Started == \E i \in 1..Len(sent) : sent[i].op = "start" /\ sent[i].result # ERROR
Returned == pc = "returned"

\* C8: the pages of a PDF file go to the transmitter in list order when the
\* tray is face-down and in reversed list order when it is face-up; without
\* a failed transmission every entry goes out exactly once.
C8_PageOrder ==
    mime_pdf =>
        \A d \in Files :
            /\ IsPrefix(PagesSent(d), TrayOrder(ResolvedList(d)))
            /\ (Printed(d) /\ \A i \in 1..Len(ContentOf(d)) : ~Failed(ContentOf(d)[i]))
                   => PagesSent(d) = TrayOrder(ResolvedList(d))

C8_Witness ==
    /\ mime_pdf /\ ~faceDownTray /\ Returned
    /\ \E d \in Files :
          /\ Printed(d)
          /\ ResolvedList(d) = <<1, 2>>
          /\ PagesSent(d) = <<2, 1>>

\* the files of the job in the order the tray asks for
FileOrder ==
    IF faceDownTray THEN [i \in 1..len |-> i - 1] ELSE [i \in 1..len |-> len - i]

\* C9: the files are submitted in index order 0..len-1 (face-down) or
\* len-1..0 (face-up); without a failed transmission each file is submitted
\* exactly once, and a file's pages come from its own resolved list.
C9_FileOrder ==
    /\ IsPrefix(submitted, FileOrder)
    /\ (Returned /\ Started /\ NoFailure) => submitted = FileOrder
    /\ mime_pdf => \A d \in Files : IsPrefix(PagesSent(d), TrayOrder(ResolvedList(d)))

CountOp(op) == Cardinality({i \in 1..Len(sent) : sent[i].op = op})

\* C10: after a failed page transmission no page content is transmitted,
\* cancel and then end are each issued exactly once, and ERROR is returned;
\* without a failed transmission neither cancel nor end is issued.
C10_FailurePolicy ==
    Returned =>
        /\ ~NoFailure =>
              /\ \A i, j \in 1..Len(sent) :
                     (Failed(sent[i]) /\ i < j) => ~(sent[j].op = "page" /\ sent[j].content)
              /\ CountOp("cancel") = 1 /\ CountOp("end") = 1
              /\ sent[Len(sent) - 1].op = "cancel" /\ sent[Len(sent)].op = "end"
              /\ job_handle = ERROR
        /\ NoFailure => (CountOp("cancel") = 0 /\ CountOp("end") = 0)

\* a call of the transmitter with no content and is-last-page set
IsMarker(e) == e.op = "page" /\ ~e.content /\ e.last
IsContent(e) == e.op = "page" /\ e.content
Markers == Cardinality({i \in 1..Len(sent) : IsMarker(sent[i])})

\* C11, as claimed: every document is closed by its own marker: a job that
\* was started has sent, when it returns, as many markers as documents were
\* submitted, and the call after the last page of a document is a marker.
C11_MarkerPerDocument_Original ==
    (Returned /\ Started) =>
        /\ Markers = Len(submitted)
        /\ \A i \in 1..Len(sent) :
               IsContent(sent[i]) =>
                   /\ i < Len(sent)
                   /\ \/ IsMarker(sent[i + 1])
                      \/ IsContent(sent[i + 1]) /\ sent[i + 1].file = sent[i].file

\* C11, amended: the marker closes the job, not each document: a started job
\* has sent exactly one marker when it returns and none before, and the
\* marker follows every page of every document.
C11_OneMarkerPerJob ==
    /\ Markers = (IF Returned /\ Started THEN 1 ELSE 0)
    /\ \A i, j \in 1..Len(sent) : (IsMarker(sent[i]) /\ IsContent(sent[j])) => j < i

C11_Witness ==
    /\ Returned /\ Started /\ NoFailure
    /\ submitted = <<1, 0>>
    /\ Markers = 1
    /\ IsMarker(sent[Len(sent)])
    /\ Cardinality({i \in 1..Len(sent) : IsContent(sent[i])}) >= 2

\* ------------------------------------- claims about the job parameters
\* wprintStartJob has been called: lines 1861-1939 have run
ParamsFinal == \E i \in 1..Len(sent) : sent[i].op = "start"

\* the job has one file, which is no PDF or resolves to exactly one page
SingleSheet == len = 1 /\ (~mime_pdf \/ Len(ResolvedList(0)) = 1)

Lists(keyword) ==
    \E i \in DOMAIN caps.print_scalings_supported :
        caps.print_scalings_supported[i] = keyword
PassThrough == print_format = PRINT_FORMAT_PDF
NoneOrEmpty == IF Lists("none") THEN "none" ELSE ""
AutoDefaultFit ==
    IF Lists("auto") THEN "auto"
    ELSE IF caps.print_scaling_default # "" THEN caps.print_scaling_default
    ELSE "fit"

\* the category is "Photo" in any letter case
PhotoAnyCase ==
    jobParams.document_category \in
        {<<p, "h", "o", "t", "o">> : p \in {"P", "p"}}

\* C13, as claimed: raster: "none" if supported, else empty; PDF pass-through
\* with (category equal to "Photo" and shared-photo) or preserve-scaling:
\* "none" if supported, else empty; any other PDF pass-through: "auto" if
\* supported, else the default if it is non-empty, else "fit".
C13_ScalingRules_Original ==
    ParamsFinal =>
        params.print_scaling =
            IF ~PassThrough THEN NoneOrEmpty
            ELSE IF (jobParams.document_category = Photo /\ jobParams.shared_photo)
                    \/ jobParams.preserve_scaling
                 THEN NoneOrEmpty
                 ELSE AutoDefaultFit

\* C13, amended: the same rules, the category being compared with "Photo"
\* without regard to letter case.
C13_ScalingRules ==
    ParamsFinal =>
        params.print_scaling =
            IF ~PassThrough THEN NoneOrEmpty
            ELSE IF (PhotoAnyCase /\ jobParams.shared_photo)
                    \/ jobParams.preserve_scaling
                 THEN NoneOrEmpty
                 ELSE AutoDefaultFit

C13_Witness ==
    /\ ParamsFinal /\ PassThrough
    /\ ~jobParams.shared_photo /\ ~jobParams.preserve_scaling
    /\ jobParams.document_category = Photo
    /\ caps.print_scalings_supported = <<"none", "fill">>
    /\ caps.print_scaling_default = "fill"
    /\ params.print_scaling = "fill"

\* -------------------------------------------- claims about the decoders
\* the bound and the symbol table of a decoder, as a map from bit index to
\* symbol
BoundOf(fn) ==
    IF fn = "processFailReasons" THEN IPP_JOB_STATE_REASON_MAX_VALUE
    ELSE PRINT_STATUS_MAX_STATE
TableOf(fn) == IF fn = "processFailReasons" THEN FailTable ELSE BlockTable
Named(fn) == UNION {TableOf(fn)[k].mask : k \in DOMAIN TableOf(fn)}
SymbolOf(fn, i) ==
    TableOf(fn)[CHOOSE k \in DOMAIN TableOf(fn) : i \in TableOf(fn)[k].mask].jStr

\* the elements of a set of numbers in ascending order
RECURSIVE Ascending(_)
Ascending(S) ==
    IF S = {} THEN << >>
    ELSE LET least == CHOOSE x \in S : \A y \in S : x <= y
         IN  <<least>> \o Ascending(S \ {least})

SymbolsOf(fn, bits) ==
    [k \in 1..Cardinality(bits) |-> SymbolOf(fn, Ascending(bits)[k])]

\* the set bits of the decoder's mask below its bound
BelowBound == {i \in decoder.reasons : i < BoundOf(decoder.fn)}

\* the decoder has returned from a call whose count is the number of set
\* bits below the bound, which is what the array is to be sized to
Decoded == decoder.pc = "returned" /\ decoder.count = Cardinality(BelowBound)

C15_UnnamedBitAddsNothing ==
    Decoded =>
        /\ SubSeq(decoder.stringArray, 1, decoder.reasonCount)
              = SymbolsOf(decoder.fn, BelowBound \cap Named(decoder.fn))
        /\ ~decoder.exception

\* ------------------------------------------------------------- dispatcher
\* the call has ended and the listener was given an event
Dispatched == callback.pc = "returned" /\ callback.calls = 1
Event == callback.event
Mask == cb_param.blocked_reasons

\* the notification reports a job that ended in Error or Corrupt
DoneFailed ==
    /\ cb_param.state = "JOB_DONE"
    /\ cb_param.job_done_result \in {"ERROR", "CORRUPT"}

\* the mask of a constant of the failed-reason table
FailMask(constant) ==
    FailTable[CHOOSE k \in 1..Len(FailChain) :
                  FailChain[k].constant = constant].mask

OnlyUnsupportedFormat ==
    /\ cb_param.state = "JOB_DONE"
    /\ cb_param.job_done_result = "ERROR"
    /\ Mask = FailMask("JOB_FAIL_REASON_UNSUPPORTED_DOCUMENT_FORMAT")

\* C16: the reason set of a dispatched event is what the failed-reason
\* table and its bound give for the mask exactly when the notification is
\* Done with outcome Error or Corrupt, and what the blocked-reason table and
\* its bound give for every other notification; a Done/Error notification
\* whose mask has only the unsupported-document-format bit gives exactly
\* the failed-table symbol of that bit.
C16_TableSelection ==
    Dispatched =>
        /\ ~Event.blockedReasons.null =>
              Event.blockedReasons.elems =
                  IF DoneFailed
                  THEN processFailReasons(Mask, callback.count).stringArray
                  ELSE processBlockStatus(Mask, callback.count).stringArray
        /\ OnlyUnsupportedFormat =>
              /\ ~Event.blockedReasons.null
              /\ Event.blockedReasons.elems =
                     <<"JOB_FAIL_REASON__UNSUPPORTED_DOCUMENT_FORMAT">>

C16_Witness ==
    /\ Dispatched
    /\ OnlyUnsupportedFormat
    /\ Event.jobDoneResult = "JOB_DONE_ERROR"
    /\ Event.blockedReasons.elems =
           <<"JOB_FAIL_REASON__UNSUPPORTED_DOCUMENT_FORMAT">>

\* C17: once the dispatcher has been given a notification, it returns and
\* the listener's callback has been invoked exactly once.
C17_ListenerCalledOnce ==
    (~cb_param.null /\ callback.pc \notin {"idle", "called"}) =>
        /\ callback.pc = "returned"
        /\ callback.calls = 1

\* the order of the states of a job: each pair is a state and one that may
\* be reported next
StateOrder ==
    {<<"none", "JOB_STATE_QUEUED">>,
     <<"JOB_STATE_QUEUED", "JOB_STATE_RUNNING">>,
     <<"JOB_STATE_RUNNING", "JOB_STATE_BLOCKED">>,
     <<"JOB_STATE_BLOCKED", "JOB_STATE_RUNNING">>,
     <<"JOB_STATE_RUNNING", "JOB_STATE_DONE">>,
     <<"JOB_STATE_BLOCKED", "JOB_STATE_DONE">>}

\* C18: the states reported to the listener for a job follow
\* Queued -> Running -> {Blocked <-> Running} -> Done: each reported state
\* comes after a state it may follow, and no event at all comes after an
\* event of state Done.
C18_ReportedStatesInOrder ==
    reported # "none" => <<reported_before, reported>> \in StateOrder

\* the event's name of a listed raw state, and of a listed result code
StateName ==
    [s \in JobStates |->
        CASE s = "JOB_QUEUED" -> "JOB_STATE_QUEUED"
          [] s = "JOB_RUNNING" -> "JOB_STATE_RUNNING"
          [] s = "JOB_BLOCKED" -> "JOB_STATE_BLOCKED"
          [] s = "JOB_DONE" -> "JOB_STATE_DONE"]
OutcomeName ==
    [r \in DoneResults |->
        CASE r = "OK" -> "JOB_DONE_OK"
          [] r = "ERROR" -> "JOB_DONE_ERROR"
          [] r = "CANCELLED" -> "JOB_DONE_CANCELLED"
          [] r = "CORRUPT" -> "JOB_DONE_CORRUPT"
          [] r = "BAD_CERTIFICATE" -> "JOB_DONE_BAD_CERTIFICATE"]

\* the event of a notification that is not Done, by its state, mask and
\* credential alone
EventOfNotDone ==
    [null |-> FALSE,
     jobState |-> IF cb_param.state \in JobStates THEN StateName[cb_param.state]
                  ELSE "JOB_STATE_OTHER",
     jobDoneResult |-> NULL,
     blockedReasons |->
         IF callback.count > 0
         THEN [null |-> FALSE,
               elems |-> processBlockStatus(Mask, callback.count).stringArray]
         ELSE [null |-> TRUE, elems |-> << >>],
     jobId |-> JOB,
     certificate |-> cb_param.certificate]

\* C19: a dispatched event has the state Queued, Running, Blocked or Done
\* of its raw state, and Other for any other raw state; it has an outcome
\* if and only if its state is Done, which is then the outcome of the
\* result code, and Other for any other code; when the state is not Done
\* the event is the same whatever the result code is.
C19_StateAndOutcome ==
    Dispatched =>
        /\ Event.jobState = IF cb_param.state \in JobStates
                            THEN StateName[cb_param.state]
                            ELSE "JOB_STATE_OTHER"
        /\ Event.jobDoneResult # NULL <=> Event.jobState = "JOB_STATE_DONE"
        /\ Event.jobState = "JOB_STATE_DONE" =>
              Event.jobDoneResult =
                  IF cb_param.job_done_result \in DoneResults
                  THEN OutcomeName[cb_param.job_done_result]
                  ELSE "JOB_DONE_OTHER"
        /\ Event.jobState # "JOB_STATE_DONE" => Event = EventOfNotDone

C19_Witness ==
    /\ Dispatched
    /\ cb_param.state = "JOB_BLOCKED"
    /\ cb_param.job_done_result = "CORRUPT"
    /\ Event.jobState = "JOB_STATE_BLOCKED"
    /\ Event.jobDoneResult = NULL
    /\ ~Event.blockedReasons.null

\* the bound of the table the notification selects
SelectedBound ==
    IF DoneFailed THEN IPP_JOB_STATE_REASON_MAX_VALUE ELSE PRINT_STATUS_MAX_STATE

\* C20: a dispatched event has a reason set if and only if a bit of the
\* mask below the selected bound is set.
C20_ReasonsIffBitBelowBound ==
    Dispatched =>
        (~Event.blockedReasons.null <=> \E i \in Mask : i < SelectedBound)

\* ------------------------------------------------------------- lifecycle
\* C21: the listener handle is set by nativeInit, left alone by the
\* dispatcher and cleared by nativeExit: no notification is dispatched
\* through a handle that a shutdown has released, whether or not the
\* library has been initialised again since.
C21_NoDispatchThroughReleasedHandle ==
    ~(callback.calls = 1 /\ callback.deleted)

\* ------------------------------------------------------ jobs not started
\* wprintStartJob was called and answered the error value
StartFailed ==
    \E i \in 1..Len(sent) : sent[i].op = "start" /\ sent[i].result = ERROR

\* C22: when the file list is empty or the start operation answers the
\* error value, nativeStartJob returns the error value and has made no
\* transmitter call, sent no end marker, no cancel and no end signal; with
\* an empty file list it has not called the start operation either.
C22_NotStartable ==
    (Returned /\ (len = 0 \/ StartFailed)) =>
        /\ job_handle = ERROR
        /\ CountOp("page") = 0
        /\ CountOp("cancel") = 0
        /\ CountOp("end") = 0
        /\ len = 0 => sent = << >>

C22_Witness ==
    /\ Returned
    /\ len = MaxDocs
    /\ StartFailed
    /\ Len(sent) = 1
    /\ job_handle = ERROR

\* -------------------------------------------------- the decoder's chain
\* what is left of the mask at the iteration of bit i: the bits below i
\* have been cleared
Remaining(i) == {j \in decoder.reasons : j >= i}

\* the entries of the table, in table order, with a bit in a mask
Entries(fn, mask) ==
    {k \in DOMAIN TableOf(fn) : (TableOf(fn)[k].mask \cap mask) # {}}

\* what the iteration of the set bit i emits: the symbol of the first such
\* entry, nothing when there is none
Emitted(fn, i) ==
    IF Entries(fn, Remaining(i)) = {} THEN << >>
    ELSE <<TableOf(fn)[Ascending(Entries(fn, Remaining(i)))[1]].jStr>>

RECURSIVE EmittedFrom(_, _)
EmittedFrom(fn, bits) ==
    IF bits = << >> THEN << >>
    ELSE Emitted(fn, Head(bits)) \o EmittedFrom(fn, Tail(bits))

\* the symbols of all iterations, in the order of the iterations
AllEmitted == EmittedFrom(decoder.fn, Ascending(BelowBound))

\* C23: the iteration of a set bit i emits the symbol of the first entry, in
\* table order, that has a bit in the remaining mask, the bits below i being
\* cleared whether or not they matched; an iteration emits at most one
\* symbol, and what the array holds is these symbols in iteration order.
C23_FirstMatchingEntry ==
    decoder.pc = "returned" =>
        /\ decoder.reasonCount = Len(AllEmitted)
        /\ decoder.reasonCount <= Cardinality(BelowBound)
        /\ \A k \in 1..Len(decoder.stringArray) :
              k <= decoder.reasonCount => decoder.stringArray[k] = AllEmitted[k]

\* the iteration of bit 0, which has no entry, emits the symbol of bit 2
C23_Witness ==
    /\ Decoded /\ decoder.fn = "processFailReasons"
    /\ decoder.reasons = {0, 2}
    /\ Emitted(decoder.fn, 0) = <<SymbolOf(decoder.fn, 2)>>
    /\ decoder.stringArray = <<SymbolOf(decoder.fn, 2), SymbolOf(decoder.fn, 2)>>

\* ------------------------------------------------------ the token buffers
\* C24: a token is cut to its first 4 characters: scanning a segment, the
\* parser stores no character in the fifth cell of a token buffer (index 4)
\* nor past it, however long the segment is.
C24_TokenTruncated ==
    call.made => call.scan.maxcell < MAX_TOKEN - 1

\* the position of the first '-' of a segment, 0 when it has none
FirstDash(seg) ==
    IF \E i \in 1..Len(seg) : seg[i] = "-"
    THEN CHOOSE i \in 1..Len(seg) :
            seg[i] = "-" /\ \A j \in 1..(i - 1) : seg[j] # "-"
    ELSE 0

\* the characters of s that are neither whitespace nor a dash, in order
Characters(s) == SelectSeq(s, LAMBDA c : c \notin WhiteSpace /\ c # "-")

BeforeFirstDash(seg) == Characters(SubSeq(seg, 1, FirstDash(seg) - 1))
AfterFirstDash(seg) == Characters(SubSeq(seg, FirstDash(seg) + 1, Len(seg)))

\* C25: in a segment with a dash, only the first '-' switches from the begin
\* token to the end token and every later '-' is skipped: the begin token is
\* the characters before the first dash and the end token is all the
\* characters after it, in order (tokens of at most 4 characters).
C25_OnlyFirstDashSwitches ==
    (/\ call.made
     /\ FirstDash(call.seg) > 0
     /\ Len(BeforeFirstDash(call.seg)) < MAX_TOKEN
     /\ Len(AfterFirstDash(call.seg)) < MAX_TOKEN) =>
        /\ BeginToken = BeforeFirstDash(call.seg)
        /\ EndToken = AfterFirstDash(call.seg)

\* ---------------------------------------------------- empty documents
\* the PDF files of the job whose page count is 0 and whose page range has
\* been resolved
EmptyDocuments ==
    {d \in Files : /\ mime_pdf
                   /\ pdf_pages_ary[d] = 0
                   /\ \/ d < pageIndex /\ pc \in {"count_loop", "range_begin",
                                                 "range_loop", "range_fallback"}
                      \/ d = pageIndex /\ pc = "range_done"
                      \/ pc \notin {"job_begin", "count_loop", "range_begin",
                                    "range_loop", "range_fallback", "range_done"}}

\* C26: for a document of 0 pages the resolver returns an empty list, count
\* 0, whatever the page-range expression is, and the job transmits no page
\* of that document.
C26_EmptyDocument ==
    \A d \in EmptyDocuments :
        /\ page_range_arr[d] = 0
        /\ ResolvedList(d) = << >>
        /\ ContentOf(d) = << >>

C26_Witness ==
    /\ Returned
    /\ pageRangeObject = String(<<"2">>)
    /\ 0 \in EmptyDocuments
    /\ fell_back
    /\ \E i \in 1..Len(submitted) : submitted[i] = 0
    /\ ContentOf(0) = << >>

\* ------------------------------------------------- entries of the list
\* C27: whatever parser calls the resolver has made for a document of N
\* pages, every entry of the resolved list below the resolved count is a
\* page number between 1 and N.
C27_EntriesWithinDocument ==
    \A k \in 1..Count : k <= Len(pages_ary[pageIndex])
                        /\ pages_ary[pageIndex][k] \in 1..N

\* a list that two segments and the fallback have written
C27_Witness ==
    /\ Resolved /\ fell_back
    /\ N = MaxPages
    /\ Count > N
    /\ List[1] = N /\ List[Count] = N


\* ------------------------------------------------------ length of a row
\* C28: for every document and every page-range expression, the resolved
\* page count after the resolver returns is at most MAX_NUM_PAGES, so that no
\* store of the parser lands past the document's row of the page table.
C28_CountWithinRow == Resolved => Count <= MAX_NUM_PAGES


\* ------------------------------------------------ capacity of the array
\* the dispatcher has allocated the reason array and run a decoder on it
DecoderRan == callback.pc \in {"returned", "aborted"} /\ callback.count > 0

\* the number of stores the decoder has made for the array, in it or not
Stored ==
    (IF callback.print_job_failed
     THEN processFailReasons(Mask, callback.count)
     ELSE processBlockStatus(Mask, callback.count)).reasonCount

\* C29: for every reason mask, the capacity of the reason array the
\* dispatcher allocates, counted with the int shift, is at least the number
\* of symbols the decoder then stores, which tests the same indexes with a
\* 64-bit shift: no symbol is stored at an index at or past the capacity.
C29_CapacityHoldsSymbols ==
    DecoderRan => (callback.count >= Stored /\ ~callback.exception)


\* --------------------------------------------------- the end of the job
\* the calls of the transmitter that nativeStartJob has made, by position
Calls == 1..Len(sent)

\* C30: a job whose start operation succeeded has sent exactly one end
\* marker when nativeStartJob returns; the marker comes after every page
\* transmission of the job; it is sent also when a page transmission has
\* failed, and the cancel and the end signal then come after it.
C30_EndMarkerClosesJob ==
    /\ (Returned /\ Started) => Markers = 1
    /\ \A i, j \in Calls : (IsMarker(sent[i]) /\ IsContent(sent[j])) => j < i
    /\ (Returned /\ Started /\ ~NoFailure) =>
           \E m \in Calls :
              /\ IsMarker(sent[m])
              /\ \A i \in Calls : sent[i].op \in {"cancel", "end"} => m < i
              /\ \E c, e \in Calls : /\ m < c /\ c < e
                                    /\ sent[c].op = "cancel" /\ sent[e].op = "end"

\* the second file's first page fails after the first file's pages went out
C30_Witness ==
    /\ Returned /\ Started /\ ~NoFailure
    /\ len = MaxDocs
    /\ Len(submitted) = MaxDocs
    /\ Len(sent) >= 5
    /\ Failed(sent[Len(sent) - 3])
    /\ IsMarker(sent[Len(sent) - 2])
    /\ sent[Len(sent) - 1].op = "cancel"
    /\ sent[Len(sent)].op = "end"
    /\ \E i \in Calls : IsContent(sent[i]) /\ ~Failed(sent[i])


============================================================================
